---------------------------- MODULE Spec2Model ----------------------------
(***************************************************************************)
(* Verification model of the listing retrieval and watch-count enrichment  *)
(* pipeline of src/src/lib/ebay/browseAxios.ts, of the token provider of   *)
(* src/src/lib/ebay/auth.ts and of the cache of src/unnamed/part_003.      *)
(*                                                                         *)
(* The module holds several specifications over one set of variables; a    *)
(* specification leaves the variables of the other parts at their idle     *)
(* values.                                                                 *)
(*   SpecFetch   fetchSellerListings: linear paging, unfiltered            *)
(*               completion, web fallback, price bands                     *)
(*   SpecFetchFair  calls for sellers with few listings under a fair       *)
(*               schedule                                                  *)
(*   SpecSearch  searchBySellersAxios: per-seller loop, enrich, sort       *)
(*   SpecEnrich  enrichWatchCounts / fetchWatchCountForRow under pLimit(2) *)
(*   SpecEnrichFair  the same call under a fair schedule                   *)
(*   SpecCascade enrichWatchCounts of src/unnamed/part_001 with its modes  *)
(*   SpecShop    fetchWatchCountShopping / fetchWatchCountsShoppingBatch   *)
(*               with the process-wide cooldown                            *)
(*   SpecShopToken  the same functions as src/unnamed/part_001 has them,   *)
(*               with the access token awaited before the request          *)
(*   SpecCopy    enrichWatchCounts and the objects of the array handed in  *)
(*   SpecRetry   withRetry of src/src/lib/rateLimiter.ts around            *)
(*               doBrowseSearch of src/unnamed/part_002                    *)
(*   SpecToken   getAppToken of browseAxios.ts: cachedToken, retries,      *)
(*               scope fallback                                            *)
(*   SpecAuth    getAppAccessToken of auth.ts with tokenCache              *)
(*   SpecCache   set / get / delete of a cache made by createCache         *)
(*   SpecSort, SpecLegacyId, SpecNormalize, SpecWeb, SpecHtml              *)
(*               sortForDisplay, extractLegacyId, normalize,               *)
(*               searchWebForLegacyIds and fetchWatchCountFromHTML applied *)
(*               to inputs from bounded sets                               *)
(***************************************************************************)
EXTENDS Integers, Sequences, FiniteSets, TLC

VARIABLES
  \* ---- fetchSellerListings (SpecFetch)
  maxPerSeller,   \* argument maxPerSeller
  catalogue,      \* the seller's active listings on the server (item numbers)
  locationCountry,\* env.EBAY_ITEM_LOCATION_COUNTRY is set
  fpc,            \* where fetchSellerListings stands
  acc,            \* acc of tryLinear / tryPriceBands
  dedup,          \* the Map dedup, as its values in insertion order
  offset,         \* let offset
  nextUrl,        \* let nextUrl
  attempt,        \* attempt of searchOnce's retry loop
  band,           \* index of the band tryPriceBands is in
  fresult,        \* the value fetchSellerListings returned
  budget,         \* faults the environment may still inject
  flog,           \* history of the call (what was requested, in which order)
  \* ---- process-wide state of the enricher (SpecShop, SpecEnrich)
  now,                     \* Date.now(), in ms
  shoppingApiBlockedUntil, \* let shoppingApiBlockedUntil
  watchCountCache,         \* watchCountCache: legacy ID -> entry
  clientId,                \* env.EBAY_CLIENT_ID is set
  shopLog,                 \* history: last IP-limit response, last Shopping call
  \* ---- callers of the Shopping API functions (SpecShop)
  shopCalls,               \* per caller: the call in progress
  \* ---- enrichWatchCounts (SpecEnrich)
  rows,           \* argument rows
  out,            \* const out
  tasks,          \* per index: where the task limit(...) made for it stands
  eret,           \* "running" until enrichWatchCounts has returned
  elog,           \* history: which indexes a source answered, whether a lookup
                  \* found a count before one of a lower index had completed
  \* ---- searchBySellersAxios (SpecSearch)
  sellers,        \* argument sellers
  token,          \* const token
  spc,            \* where searchBySellersAxios stands
  sidx,           \* index of the seller the for loop is at
  results,        \* const results
  sresult,        \* the value searchBySellersAxios returned
  slog,           \* history: per seller, what its retrieval did
  started,        \* history: the sellers whose retrieval was started, in order
  tokenEnd,       \* history: how the call of getAppToken ended
  \* ---- environment (SpecToken, SpecAuth)
  credentials,    \* env.EBAY_CLIENT_ID and env.EBAY_CLIENT_SECRET are set
  \* ---- getAppToken of browseAxios.ts (SpecToken)
  cachedToken,    \* let cachedToken
  tpc,            \* where getAppToken stands
  tscope,         \* scope of the requestWithRetry under way
  tattempt,       \* attempt of requestWithRetry's loop
  tresult,        \* the value getAppToken returned
  tlog,           \* history: the token requests of the call, with their replies
  \* ---- getAppAccessToken of auth.ts (SpecAuth)
  tokenCache,     \* tokenCache entry of the key appToken:<EBAY_ENV>
  apc,            \* where getAppAccessToken stands
  ai,             \* i of request(BROWSE_SCOPE)
  aj,             \* i of the nested request(BASE_SCOPE)
  aresult,        \* the value getAppAccessToken returned
  alog,           \* history: the token requests of the call, with their replies
  \* ---- a call of a pure function (SpecSort, SpecLegacyId, SpecNormalize,
  \*      SpecWeb) or of a cache operation (SpecCache)
  arg,            \* the arguments
  ret,            \* the call's result, once made
  \* ---- enrichWatchCounts with its modes (SpecCascade)
  mode,           \* process.env.WATCHCOUNT_MODE
  crows,          \* the rows the call was handed
  cout,           \* const out
  cout2,          \* const out2 of the fallback mode
  cpc,            \* where the call stands
  cpend,          \* rows whose per-row task has not run yet
  cqueue,         \* entries of the seller map the site loop has yet to visit
  clog            \* history: the sources consulted, in order

fetchVars == <<maxPerSeller, catalogue, locationCountry, fpc, acc, dedup, offset,
               nextUrl, attempt, band, fresult, budget, flog>>

sharedVars == <<now, shoppingApiBlockedUntil, watchCountCache, clientId, shopLog>>

shopVars == <<shopCalls>>

enrichVars == <<rows, out, tasks, eret, elog>>

searchVars == <<sellers, token, spc, sidx, results, sresult, slog, started, tokenEnd>>

envVars == <<credentials>>

tokVars == <<cachedToken, tpc, tscope, tattempt, tresult, tlog>>

authVars == <<tokenCache, apc, ai, aj, aresult, alog>>

pureVars == <<arg, ret>>

cascVars == <<mode, crows, cout, cout2, cpc, cpend, cqueue, clog>>

extVars == <<envVars, tokVars, authVars, pureVars, cascVars>>

vars == <<fetchVars, sharedVars, shopVars, enrichVars, searchVars, extVars>>

-----------------------------------------------------------------------------
(* Bounds of the model *)

MaxPerSellerBound == 3
NumItems == 5
\* PAGE_LIMIT is 200 in the source; the model pages by 2 so that a query of a
\* few items spans several pages.
PAGE_LIMIT == 2
MaxTransportFailures == 6
MaxHttpErrors == 1
MaxTicks == 3
NumCallers == 2

-----------------------------------------------------------------------------
(* Generic helpers *)

Min(a, b) == IF a < b THEN a ELSE b

Take(s, n) == SubSeq(s, 1, Min(n, Len(s)))

RECURSIVE SortedSeq(_)
\* the elements of a finite set of numbers in ascending order
SortedSeq(S) ==
  IF S = {} THEN <<>>
  ELSE LET m == CHOOSE x \in S : \A y \in S : x <= y
       IN <<m>> \o SortedSeq(S \ {m})

Reverse(s) == [i \in 1..Len(s) |-> s[Len(s) + 1 - i]]

Range(s) == {s[i] : i \in 1..Len(s)}

-----------------------------------------------------------------------------
(* The server: the seller's listings and how the Browse API pages them *)

NoUrl == [none |-> TRUE]

\* price of each listing; 20 lies on the boundary of the first two bands
Price(i) ==
  CASE i = 1 -> 20
    [] i = 2 -> 600
    [] i = 3 -> 10
    [] i = 4 -> 15
    [] i = 5 -> 5
    [] OTHER -> 6000

\* listing is located in the configured country
InLocation(i) == i \notin {2, 4}

\* the item summary carries an itemId (SampleItem.itemId is optional)
HasItemId(i) == i # 3

bands == << <<0, 20>>, <<20, 50>>, <<50, 100>>, <<100, 200>>, <<200, 500>>,
           <<500, 1000>>, <<1000, 5000>>, <<5000, 1000000>> >>

\* filter of one request: location filter, price band (0: no price filter)
Query(useLocation, b) == [loc |-> useLocation /\ locationCountry, band |-> b]

\* price:[lo..hi] admits both ends
Matches(i, q) ==
  /\ q.loc => InLocation(i)
  /\ q.band # 0 => (bands[q.band][1] <= Price(i) /\ Price(i) <= bands[q.band][2])

QueryItems(q) == SortedSeq({i \in catalogue : Matches(i, q)})

\* the page at (off, lim) of query q, and the continuation URL when more follows
PageItems(q, off, lim) ==
  LET all == QueryItems(q)
  IN IF off >= Len(all) THEN <<>> ELSE SubSeq(all, off + 1, Min(off + lim, Len(all)))

PageNext(q, off, lim) ==
  IF off + lim < Len(QueryItems(q))
  THEN [none |-> FALSE, q |-> q, off |-> off + lim, lim |-> lim]
  ELSE NoUrl


-----------------------------------------------------------------------------
(* fetchSellerListings *)

\* axios is called with validateStatus: () => true, so no status rejects
validateStatus(status) == TRUE

\* res.data.itemSummaries || []  and  typeof res.data?.next === "string"
ItemSummaries(res) == IF res.status = 200 THEN res.itemSummaries ELSE <<>>
NextOf(res) == IF res.status = 200 THEN res.next ELSE NoUrl

\* the replies the server may give to the page request (q, off, lim)
Replies(q, off, lim) ==
  {[status |-> 200, errorId |-> 0, itemSummaries |-> PageItems(q, off, lim), next |-> n] :
      n \in {PageNext(q, off, lim), NoUrl}}
  \cup (IF budget.http > 0
        THEN {[status |-> 400, errorId |-> 12023, itemSummaries |-> <<>>, next |-> NoUrl],
              [status |-> 500, errorId |-> 0, itemSummaries |-> <<>>, next |-> NoUrl]}
        ELSE {})

\* a searchOnce that pays no heed to the continuation URL
Request_OffsetOnly(useLocation, b, have) ==
  [q |-> Query(useLocation, b), off |-> offset,
   lim |-> Min(PAGE_LIMIT, maxPerSeller - have)]

\* searchOnce: a continuation URL replaces offset, limit and filter
Request(useLocation, b, have) ==
  IF nextUrl # NoUrl
  THEN [q |-> nextUrl.q, off |-> nextUrl.off, lim |-> nextUrl.lim]
  ELSE [q |-> Query(useLocation, b), off |-> offset,
        lim |-> Min(PAGE_LIMIT, maxPerSeller - have)]

\* a loop that asks for the same offset again
AdvanceOffset_Stay(off, items) == off

\* offset += items.length
AdvanceOffset(off, items) == off + Len(items)

Tag(ids, s) == [k \in 1..Len(ids) |-> [id |-> ids[k], src |-> s]]

MapHas(m, id) == \E k \in 1..Len(m) : m[k].id = id

\* Map.set: a present key keeps its place and takes the new value
MapSet(m, it) ==
  IF MapHas(m, it.id)
  THEN [k \in 1..Len(m) |-> IF m[k].id = it.id THEN it ELSE m[k]]
  ELSE Append(m, it)

RECURSIVE SeedDedup(_, _)
\* for (const it of first) if (it.itemId) dedup.set(it.itemId, it)
SeedDedup(m, items) ==
  IF items = <<>> THEN m
  ELSE SeedDedup(IF HasItemId(Head(items).id) THEN MapSet(m, Head(items)) ELSE m,
                 Tail(items))

RECURSIVE MergeNew(_, _)
\* for (const it of items) if (it.itemId && !dedup.has(it.itemId)) dedup.set(...)
MergeNew(m, items) ==
  IF items = <<>> THEN m
  ELSE MergeNew(IF HasItemId(Head(items).id) /\ ~MapHas(m, Head(items).id)
                THEN Append(m, Head(items)) ELSE m,
                Tail(items))

RECURSIVE MergeExtra(_, _, _)
\* the same over the web rows, leaving the loop once dedup.size >= maxPerSeller
MergeExtra(m, items, max) ==
  IF items = <<>> THEN m
  ELSE LET it == Head(items)
           m2 == IF HasItemId(it.id) /\ ~MapHas(m, it.id) THEN Append(m, it) ELSE m
       IN IF Len(m2) >= max THEN m2 ELSE MergeExtra(m2, Tail(items), max)

\* a shortfall call that asks for the missing count only
ShortfallDesired_Exact(max, merged) == max - Len(merged)

\* number of IDs the shortfall completion asks the web resolver for
ShortfallDesired(max, merged) == (max - Len(merged)) * 2

\* a last resort that asks for twice the count
LastResortDesired_Double(max) == max * 2

\* number of rows the last-resort web call is asked for
LastResortDesired(max) == max

\* what fetchSellerListings returns from the merged map
ReturnMerged(merged, max) == Take(merged, max)

\* what fetchSellerListings returns from tryPriceBands
ReturnBanded(banded, max) == banded

\* fallbackSearchByWeb(token, seller, n): the IDs scraped from the newest-first
\* result page (none when the fetch fails), one lookup per ID, failed lookups
\* dropped, items.slice(0, n)
WebRows(n) ==
  LET newest == Reverse(SortedSeq(catalogue))
      ids == Take(newest, n)
  IN {<<>>} \cup
     {Take(Tag(SelectSeq(ids, LAMBDA i : i # d), "web"), n) : d \in Range(ids) \cup {0}}

TypeOK_fpc ==
  fpc \in {"idle", "tryLinear", "unfiltered", "webShortfall", "webZero",
           "tryPriceBands", "webCatch", "returned", "threw"}

\* the state at the call, the network failing at most `failures` times
InitFetchCall(perSeller, items, failures) ==
  /\ maxPerSeller \in 1..perSeller
  /\ catalogue \in SUBSET (1..items)
  /\ locationCountry \in BOOLEAN
  /\ fpc = "tryLinear"
  /\ acc = <<>>
  /\ dedup = <<>>
  /\ offset = 0
  /\ nextUrl = NoUrl
  /\ attempt = 0
  /\ band = 0
  /\ fresult = <<>>
  /\ budget = [transport |-> failures, http |-> MaxHttpErrors]
  /\ flog = [tooLargeLinear |-> FALSE, httpErr |-> FALSE, bandsRan |-> FALSE,
             bandFault |-> FALSE,
             unfPasses |-> 0, unfEnded |-> FALSE, first |-> <<>>, firstDone |-> FALSE,
             banded |-> <<>>, bandedDone |-> FALSE, webCalls |-> <<>>,
             lin |-> [made |-> FALSE],
             bandSeq |-> <<>>, bandRows |-> 0, tooLargeNow |-> FALSE,
             tooLargeKept |-> FALSE, lastWeb |-> <<>>]

InitFetch == InitFetchCall(MaxPerSellerBound, NumItems, MaxTransportFailures)

\* the catch block of fetchSellerListings: tryPriceBands starts
EnterCatch(log) ==
  /\ fpc' = "tryPriceBands"
  /\ acc' = <<>>
  /\ band' = 1
  /\ offset' = 0
  /\ nextUrl' = NoUrl
  /\ attempt' = 0
  /\ flog' = [log EXCEPT !.bandsRan = TRUE]
  /\ UNCHANGED <<dedup, fresult>>

Spend(res) == IF res.status = 200 THEN budget ELSE [budget EXCEPT !.http = @ - 1]

\* one attempt of searchOnce fails in transport; the third failure throws
SearchOnceFails ==
  /\ fpc \in {"tryLinear", "unfiltered", "tryPriceBands"}
  /\ budget.transport > 0
  /\ budget' = [budget EXCEPT !.transport = @ - 1]
  /\ UNCHANGED <<maxPerSeller, catalogue, locationCountry>>
  /\ UNCHANGED <<sharedVars, shopVars, enrichVars, searchVars, extVars>>
  /\ IF attempt + 1 < 3
     THEN /\ attempt' = attempt + 1
          /\ UNCHANGED <<fpc, acc, dedup, offset, nextUrl, band, fresult, flog>>
     ELSE IF fpc = "tryPriceBands"
          THEN /\ fpc' = "threw"
               /\ attempt' = 0
               /\ flog' = [flog EXCEPT !.bandFault = TRUE]
               /\ UNCHANGED <<acc, dedup, offset, nextUrl, band, fresult>>
          ELSE EnterCatch(flog)

\* one page of tryLinear
LinearPage ==
  /\ fpc = "tryLinear"
  /\ LET req == Request(TRUE, 0, Len(acc))
     IN \E res \in Replies(req.q, req.off, req.lim) :
          LET items == Tag(ItemSummaries(res), "loc")
              acc2 == acc \o items
              nxt == NextOf(res)
              stop == (Len(items) = 0 /\ nxt = NoUrl) \/ Len(acc2) >= maxPerSeller
              log == [flog EXCEPT !.tooLargeLinear =
                        @ \/ (res.status = 400 /\ res.errorId = 12023),
                                   !.httpErr = @ \/ res.status = 500,
                                   !.lin = [made |-> TRUE, req |-> req,
                                            prevNext |-> nextUrl,
                                            prevCount |-> Len(acc),
                                            items |-> Len(items), next |-> nxt,
                                            count |-> Len(acc2),
                                            continued |-> ~stop]]
          IN /\ budget' = Spend(res)
             /\ IF ~validateStatus(res.status)
                THEN EnterCatch(log)
                ELSE IF ~stop
                THEN /\ acc' = acc2
                     /\ offset' = AdvanceOffset(offset, items)
                     /\ nextUrl' = nxt
                     /\ attempt' = 0
                     /\ flog' = log
                     /\ UNCHANGED <<fpc, dedup, band, fresult>>
                ELSE IF Len(acc2) >= maxPerSeller
                THEN /\ fpc' = "returned"
                     /\ fresult' = Take(acc2, maxPerSeller)
                     /\ acc' = acc2
                     /\ flog' = [log EXCEPT !.first = acc2, !.firstDone = TRUE]
                     /\ attempt' = 0
                     /\ UNCHANGED <<dedup, offset, nextUrl, band>>
                ELSE /\ fpc' = "unfiltered"
                     /\ dedup' = SeedDedup(<<>>, acc2)
                     /\ acc' = acc2
                     /\ offset' = 0
                     /\ nextUrl' = NoUrl
                     /\ attempt' = 0
                     /\ flog' = [log EXCEPT !.first = acc2, !.firstDone = TRUE,
                                            !.unfPasses = @ + 1]
                     /\ UNCHANGED <<band, fresult>>
  /\ UNCHANGED <<maxPerSeller, catalogue, locationCountry>>
  /\ UNCHANGED <<sharedVars, shopVars, enrichVars, searchVars, extVars>>

\* one page of the unfiltered completion loop
UnfilteredPage ==
  /\ fpc = "unfiltered"
  /\ LET req == Request(FALSE, 0, Len(dedup))
     IN \E res \in Replies(req.q, req.off, req.lim) :
          LET items == Tag(ItemSummaries(res), "unf")
              merged == MergeNew(dedup, items)
              nxt == NextOf(res)
              stop == (Len(items) = 0 /\ nxt = NoUrl) \/ Len(merged) >= maxPerSeller
          IN /\ budget' = Spend(res)
             /\ IF ~validateStatus(res.status)
                THEN EnterCatch(flog)
                ELSE IF ~stop
                THEN /\ dedup' = merged
                     /\ offset' = AdvanceOffset(offset, items)
                     /\ nextUrl' = nxt
                     /\ attempt' = 0
                     /\ UNCHANGED <<fpc, acc, band, fresult, flog>>
                ELSE IF Len(merged) < maxPerSeller
                THEN /\ fpc' = "webShortfall"
                     /\ dedup' = merged
                     /\ attempt' = 0
                     /\ flog' = [flog EXCEPT !.unfEnded = TRUE,
                                   !.webCalls = Append(@,
                                      [site |-> "shortfall",
                                       desired |-> ShortfallDesired(maxPerSeller, merged),
                                       merged |-> Len(merged),
                                       unfPasses |-> flog.unfPasses,
                                       unfEnded |-> TRUE])]
                     /\ UNCHANGED <<acc, offset, nextUrl, band, fresult>>
                ELSE /\ fpc' = "returned"
                     /\ dedup' = merged
                     /\ fresult' = ReturnMerged(merged, maxPerSeller)
                     /\ attempt' = 0
                     /\ flog' = [flog EXCEPT !.unfEnded = TRUE]
                     /\ UNCHANGED <<acc, offset, nextUrl, band>>
  /\ UNCHANGED <<maxPerSeller, catalogue, locationCountry>>
  /\ UNCHANGED <<sharedVars, shopVars, enrichVars, searchVars, extVars>>

\* fallbackSearchByWeb(token, seller, needMore * 2) answers
WebShortfall ==
  /\ fpc = "webShortfall"
  /\ \E extra \in WebRows(flog.webCalls[Len(flog.webCalls)].desired) :
       LET merged == MergeExtra(dedup, extra, maxPerSeller)
       IN /\ dedup' = merged
          /\ IF Len(merged) > 0
             THEN /\ fpc' = "returned"
                  /\ fresult' = ReturnMerged(merged, maxPerSeller)
                  /\ flog' = flog
             ELSE /\ fpc' = "webZero"
                  /\ fresult' = fresult
                  /\ flog' = [flog EXCEPT !.webCalls = Append(@,
                                [site |-> "zero", desired |-> LastResortDesired(maxPerSeller),
                                 merged |-> Len(merged),
                                 unfPasses |-> flog.unfPasses,
                                 unfEnded |-> flog.unfEnded])]
  /\ UNCHANGED <<maxPerSeller, catalogue, locationCountry, acc, offset, nextUrl,
                 attempt, band, budget>>
  /\ UNCHANGED <<sharedVars, shopVars, enrichVars, searchVars, extVars>>

\* fallbackSearchByWeb(token, seller, maxPerSeller) answers: the last resort of
\* the zero-result case and of the catch block
WebLastResort ==
  /\ fpc \in {"webZero", "webCatch"}
  /\ \E webRows \in WebRows(flog.webCalls[Len(flog.webCalls)].desired) :
       /\ fpc' = "returned"
       /\ fresult' = webRows
       /\ flog' = [flog EXCEPT !.lastWeb = webRows]
  /\ UNCHANGED <<maxPerSeller, catalogue, locationCountry, acc, dedup, offset, nextUrl,
                 attempt, band, budget>>
  /\ UNCHANGED <<sharedVars, shopVars, enrichVars, searchVars, extVars>>

\* one page of tryPriceBands
BandPage ==
  /\ fpc = "tryPriceBands"
  /\ LET req == Request(TRUE, band, Len(acc))
     IN \E res \in Replies(req.q, req.off, req.lim) :
          LET rejected == ~validateStatus(res.status)
              \* catch: a rejected 400/12023 leaves the band, anything else is rethrown
              skip == rejected /\ res.status = 400 /\ res.errorId = 12023
              items == Tag(ItemSummaries(res), "band")
              acc2 == acc \o items
              nxt == NextOf(res)
              bandOver == skip \/ (Len(items) = 0 /\ nxt = NoUrl)
              tooLarge == res.status = 400 /\ res.errorId = 12023
              log == [flog EXCEPT !.bandFault = @ \/ res.status # 200,
                        !.bandSeq = IF @ # <<>> /\ @[Len(@)] = band THEN @
                                    ELSE Append(@, band),
                        !.bandRows = IF bandOver THEN 0 ELSE @ + Len(items),
                        !.tooLargeNow = tooLarge,
                        !.tooLargeKept = @ \/ (tooLarge /\ flog.bandRows > 0)]
              over == Len(acc2) >= maxPerSeller \/ (bandOver /\ band = Len(bands))
          IN /\ budget' = Spend(res)
             /\ acc' = acc2
             /\ attempt' = 0
             /\ UNCHANGED dedup
             /\ IF rejected /\ ~skip
                THEN /\ fpc' = "threw"
                     /\ flog' = log
                     /\ UNCHANGED <<offset, nextUrl, band, fresult>>
                ELSE IF over
                THEN /\ flog' = [log EXCEPT !.banded = acc2, !.bandedDone = TRUE,
                                   !.webCalls = IF Len(acc2) > 0 THEN @
                                                ELSE Append(@,
                                      [site |-> "catch", desired |-> LastResortDesired(maxPerSeller),
                                       merged |-> Len(dedup),
                                       unfPasses |-> flog.unfPasses,
                                       unfEnded |-> flog.unfEnded])]
                     /\ IF Len(acc2) > 0
                        THEN /\ fpc' = "returned"
                             /\ fresult' = ReturnBanded(acc2, maxPerSeller)
                        ELSE /\ fpc' = "webCatch"
                             /\ fresult' = fresult
                     /\ UNCHANGED <<offset, nextUrl, band>>
                ELSE IF bandOver
                THEN /\ band' = band + 1
                     /\ offset' = 0
                     /\ nextUrl' = NoUrl
                     /\ flog' = log
                     /\ UNCHANGED <<fpc, fresult>>
                ELSE /\ offset' = AdvanceOffset(offset, items)
                     /\ nextUrl' = nxt
                     /\ flog' = log
                     /\ UNCHANGED <<fpc, band, fresult>>
  /\ UNCHANGED <<maxPerSeller, catalogue, locationCountry>>
  /\ UNCHANGED <<sharedVars, shopVars, enrichVars, searchVars, extVars>>

NextFetch ==
  \/ SearchOnceFails
  \/ LinearPage
  \/ UnfilteredPage
  \/ WebShortfall
  \/ WebLastResort
  \/ BandPage

-----------------------------------------------------------------------------
(* Process-wide state of the enricher: clock, cooldown, watch-count cache *)

\* null / undefined; every number of the program is >= 0
NULL == -999

TickMs == 15 * 60 * 1000
SHOPPING_COOLDOWN_MS == 30 * 60 * 1000
WATCH_TTL_MS == 6 * 60 * 60 * 1000
\* env.CACHE_TTL_MS, the TTL of a set() that passes none
CACHE_TTL_MS == 900000

LegacyIds == {100001, 100002}

\* the count the marketplace holds for a listing
ServerWatchCount(id) == IF id = 100001 THEN 7 ELSE 0

NoEntry == [absent |-> TRUE]

\* a breaker that is still closed at the instant the cooldown ends
isShoppingBlocked_Inclusive == now <= shoppingApiBlockedUntil

isShoppingBlocked == now < shoppingApiBlockedUntil

\* a breaker that takes the duration for the deadline
blockShoppingFor_Duration(ms) == ms

\* the new value of shoppingApiBlockedUntil
blockShoppingFor(ms) == now + ms

\* a get that never takes an entry for expired
CacheGet_NoExpiry(id) ==
  IF watchCountCache[id] # NoEntry THEN watchCountCache[id].value ELSE NULL

\* createCache(...).get: the value of a live entry, undefined (NULL) otherwise
CacheGet(id) ==
  LET e == watchCountCache[id]
  IN IF e # NoEntry /\ now - e.start <= e.ttl THEN e.value ELSE NULL

\* createCache(...).set(key, value, ttlMs): ttl: ttlMs ?? env.CACHE_TTL_MS
CacheSet(cache, id, v, ttlMs) ==
  [cache EXCEPT ![id] = [absent |-> FALSE, value |-> v, start |-> now,
                         ttl |-> IF ttlMs = NULL THEN CACHE_TTL_MS ELSE ttlMs]]

RECURSIVE CacheSetAll(_, _, _)
\* for (const [id, n] of map.entries()) watchCountCache.set(`wc:${id}`, n, 6h)
CacheSetAll(cache, ids, map) ==
  IF ids = {} THEN cache
  ELSE LET id == CHOOSE x \in ids : TRUE
       IN CacheSetAll(CacheSet(cache, id, map[id], WATCH_TTL_MS), ids \ {id}, map)

InitShared ==
  /\ now = 0
  /\ shoppingApiBlockedUntil = 0
  /\ watchCountCache = [id \in LegacyIds |-> NoEntry]
  /\ clientId \in BOOLEAN
  /\ shopLog = [lastTrip |-> -1,
                call |-> [made |-> FALSE, t |-> 0, trip |-> -1, cached |-> FALSE,
                          dispatched |-> FALSE]]

\* time passes
Tick ==
  /\ now < MaxTicks * TickMs
  /\ now' = now + TickMs
  /\ UNCHANGED <<shoppingApiBlockedUntil, watchCountCache, clientId, shopLog>>
  /\ UNCHANGED <<fetchVars, shopVars, enrichVars, searchVars, extVars>>

\* history of an invocation of a Shopping API function by one of the callers of
\* SpecShop at this instant: whether
\* every ID asked for was served by the cache, whether a request went out, and
\* the instant of the last IP-limit response seen before
LogCall(log, cached, dispatched) ==
  [log EXCEPT !.call = [made |-> TRUE, t |-> now, trip |-> log.lastTrip,
                        cached |-> cached, dispatched |-> dispatched]]

\* history of a response carrying "IP limit exceeded" seen at this instant
LogTrip(log) == [log EXCEPT !.lastTrip = now]

\* fetchWatchCountShopping up to its await: "cached", "blocked", "noAppId" or
\* "dispatch"
ShoppingGate(legacyId) ==
  IF CacheGet(legacyId) # NULL THEN "cached"
  ELSE IF isShoppingBlocked THEN "blocked"
  ELSE IF ~clientId THEN "noAppId"
  ELSE "dispatch"

\* the bodies a GetSingleItem request may be answered with; "throw" stands for
\* a timeout, a transport failure and a non-2xx status
SingleReplies(legacyId) ==
  {[kind |-> "throw"], [kind |-> "ipLimit"], [kind |-> "missing"],
   [kind |-> "count", n |-> ServerWatchCount(legacyId)]}

\* fetchWatchCountShopping after its await: the value returned
SingleResult(rep) == IF rep.kind = "count" THEN rep.n ELSE NULL

-----------------------------------------------------------------------------
(* Callers of the Shopping API functions *)

Callers == 1..NumCallers

InitShop ==
  shopCalls = [c \in Callers |-> [pc |-> "idle"]]

\* caller c invokes fetchWatchCountShopping(legacyId)
CallSingle(c, legacyId) ==
  /\ shopCalls[c].pc = "idle"
  /\ LET gate == ShoppingGate(legacyId)
     IN /\ shopLog' = LogCall(shopLog, gate = "cached", gate = "dispatch")
        /\ shopCalls' = [shopCalls EXCEPT ![c] =
                           IF gate = "dispatch" THEN [pc |-> "single", id |-> legacyId]
                           ELSE [pc |-> "idle"]]
  /\ UNCHANGED <<now, shoppingApiBlockedUntil, watchCountCache, clientId>>
  /\ UNCHANGED <<fetchVars, enrichVars, searchVars, extVars>>

\* a handler that takes a request that failed for a sign of the IP limit too
SingleResponse_TripOnFailure(c) ==
  /\ shopCalls[c].pc = "single"
  /\ \E rep \in SingleReplies(shopCalls[c].id) :
       /\ shopCalls' = [shopCalls EXCEPT ![c] = [pc |-> "idle"]]
       /\ shoppingApiBlockedUntil' =
            IF rep.kind \in {"ipLimit", "throw"}
            THEN blockShoppingFor(SHOPPING_COOLDOWN_MS)
            ELSE shoppingApiBlockedUntil
       /\ shopLog' = IF rep.kind = "ipLimit" THEN LogTrip(shopLog) ELSE shopLog
  /\ UNCHANGED <<now, watchCountCache, clientId>>
  /\ UNCHANGED <<fetchVars, enrichVars, searchVars, extVars>>

\* the GetSingleItem request of caller c is answered
SingleResponse(c) ==
  /\ shopCalls[c].pc = "single"
  /\ \E rep \in SingleReplies(shopCalls[c].id) :
       /\ shopCalls' = [shopCalls EXCEPT ![c] = [pc |-> "idle"]]
       /\ IF rep.kind = "ipLimit"
          THEN /\ shoppingApiBlockedUntil' = blockShoppingFor(SHOPPING_COOLDOWN_MS)
               /\ shopLog' = LogTrip(shopLog)
          ELSE UNCHANGED <<shoppingApiBlockedUntil, shopLog>>
  /\ UNCHANGED <<now, watchCountCache, clientId>>
  /\ UNCHANGED <<fetchVars, enrichVars, searchVars, extVars>>

\* the entries of the cache among ids, as the Map the batch call starts from
CachedMap(ids) == [id \in {x \in ids : CacheGet(x) # NULL} |-> CacheGet(id)]

\* fetchWatchCountsShoppingBatch up to its await: the IDs it sends a request
\* for (none: it returns the cached map)
BatchPending(legacyIds) ==
  LET pending == {id \in legacyIds : CacheGet(id) = NULL}
  IN IF legacyIds = {} \/ pending = {} \/ isShoppingBlocked \/ ~clientId
     THEN {} ELSE pending

\* caller c invokes fetchWatchCountsShoppingBatch(legacyIds)
CallBatch(c, legacyIds) ==
  /\ shopCalls[c].pc = "idle"
  /\ LET pending == BatchPending(legacyIds)
     IN /\ shopLog' = LogCall(shopLog, \A id \in legacyIds : CacheGet(id) # NULL,
                              pending # {})
        /\ shopCalls' = [shopCalls EXCEPT ![c] =
                           IF pending # {}
                           THEN [pc |-> "batch", pending |-> pending,
                                 map |-> CachedMap(legacyIds)]
                           ELSE [pc |-> "idle"]]
  /\ UNCHANGED <<now, shoppingApiBlockedUntil, watchCountCache, clientId>>
  /\ UNCHANGED <<fetchVars, enrichVars, searchVars, extVars>>

\* the GetMultipleItems request of caller c is answered
BatchResponse(c) ==
  /\ shopCalls[c].pc = "batch"
  /\ \E kind \in {"throw", "ipLimit", "ok"}, found \in SUBSET shopCalls[c].pending :
       LET old == shopCalls[c].map
           map == IF kind = "ok"
                  THEN [id \in DOMAIN old \cup found |->
                          IF id \in found THEN ServerWatchCount(id) ELSE old[id]]
                  ELSE old
       IN /\ kind # "ok" => found = {}
          /\ shopCalls' = [shopCalls EXCEPT ![c] = [pc |-> "idle"]]
          /\ watchCountCache' = IF kind = "ok"
                                THEN CacheSetAll(watchCountCache, DOMAIN map, map)
                                ELSE watchCountCache
          /\ IF kind = "ipLimit"
             THEN /\ shoppingApiBlockedUntil' = blockShoppingFor(SHOPPING_COOLDOWN_MS)
                  /\ shopLog' = LogTrip(shopLog)
             ELSE UNCHANGED <<shoppingApiBlockedUntil, shopLog>>
  /\ UNCHANGED <<now, clientId>>
  /\ UNCHANGED <<fetchVars, enrichVars, searchVars, extVars>>

NextShop ==
  \/ Tick
  \/ \E c \in Callers, id \in LegacyIds : CallSingle(c, id)
  \/ \E c \in Callers : SingleResponse(c)
  \/ \E c \in Callers, ids \in SUBSET LegacyIds : CallBatch(c, ids)
  \/ \E c \in Callers : BatchResponse(c)

-----------------------------------------------------------------------------
(* enrichWatchCounts and fetchWatchCountForRow *)

MaxRows == 3

\* pLimit(2)
HtmlConcurrency == 2

\* [0-9]{6,}: a run of six digits or more. An itemId v1|N|0 and a URL /itm/N
\* are held as the number N; NULL when the field is null.
SixDigits(n) == n # NULL /\ n >= 100000

\* a url is told by the number its patterns look for: n >= 0 is a URL with
\* the path /itm/<n>, n < 0 one with no such path and the query item=<-n>;
\* an itemId n is v1|<n>|0
extractLegacyId(row) ==
  IF row.url # NULL /\ SixDigits(row.url) THEN row.url
  ELSE IF row.url # NULL /\ SixDigits(-row.url) THEN -row.url
  ELSE IF SixDigits(row.itemId) THEN row.itemId
  ELSE NULL

\* the rows enrichWatchCounts is handed: a listing with URL and itemId, one
\* with no URL, one whose count is already known, one with no legacy ID
RowChoices ==
  {[title |-> 1, itemId |-> 100001, url |-> 100001, watchCount |-> NULL],
   [title |-> 2, itemId |-> 100002, url |-> NULL,   watchCount |-> NULL],
   [title |-> 3, itemId |-> 100001, url |-> 100001, watchCount |-> 3],
   [title |-> 4, itemId |-> NULL,   url |-> 123,    watchCount |-> NULL]}

RowSeqs(n) == UNION {[1..k -> RowChoices] : k \in 0..n}

\* what the GET of a listing page may bring: a timeout / transport failure /
\* non-2xx status ("throw"), a body that is no string ("notText"), or a page,
\* which may be a challenge page and holds zero, one or two watcher phrases
HtmlReplies(legacyId) ==
  {[kind |-> "throw"], [kind |-> "notText"]} \cup
  {[kind |-> "page", challenge |-> c, phrases |-> p] :
     c \in BOOLEAN,
     p \in {<<>>, <<ServerWatchCount(legacyId)>>,
            <<ServerWatchCount(legacyId), ServerWatchCount(legacyId)>>}}

\* the reply is a listing page that states a watch count
HtmlCarriesCount(rep) ==
  rep.kind = "page" /\ ~rep.challenge /\ Len(rep.phrases) >= 1

\* a scraper that does not look for challenge pages
fetchWatchCountFromHTML_NoChallenge(rep) ==
  IF rep.kind # "page" THEN NULL
  ELSE IF Len(rep.phrases) >= 2 THEN rep.phrases[2]
  ELSE NULL

\* fetchWatchCountFromHTML after its awaits. html.match(pattern) with a /g
\* pattern is the list of whole matches, so match[1] is the second phrase.
fetchWatchCountFromHTML(rep) ==
  IF rep.kind # "page" THEN NULL
  ELSE IF rep.challenge THEN NULL
  ELSE IF Len(rep.phrases) >= 2 THEN rep.phrases[2]
  ELSE NULL

\* results collected in completion order
WriteBack_Push(o, index, watchCount) ==
  Append(o, [o[index] EXCEPT !.watchCount = watchCount])

\* out[index] = { ...out[index], watchCount }
WriteBack(o, index, watchCount) ==
  [o EXCEPT ![index] = [o[index] EXCEPT !.watchCount = watchCount]]

InitEnrich ==
  /\ rows \in RowSeqs(MaxRows)
  /\ out = rows
  /\ tasks = [i \in 1..Len(rows) |-> "queued"]
  /\ eret = "running"
  /\ elog = [sourced |-> [i \in 1..Len(rows) |-> FALSE], overtook |-> FALSE,
             hit |-> FALSE,
             netAfterHit |-> FALSE, shopAfterHtmlNum |-> FALSE]

\* a limiter that counts the requests in flight only
Active_RequestsOnly == {i \in 1..Len(tasks) : tasks[i] \in {"html", "shop"}}

\* the tasks pLimit lets run
Active == {i \in 1..Len(tasks) : tasks[i] \in {"delay", "html", "shop"}}

\* a source answered for index i
Sourced(log, i) == [log EXCEPT !.sourced[i] = TRUE]

\* the task of index i ends with watchCount (NULL: nothing found)
Finish(i, watchCount, log) ==
  /\ out' = IF watchCount # NULL THEN WriteBack(out, i, watchCount) ELSE out
  /\ tasks' = [tasks EXCEPT ![i] = "done"]
  /\ elog' = [log EXCEPT !.overtook =
                   @ \/ (watchCount # NULL /\ \E j \in 1..(i - 1) : tasks[j] # "done")]

\* pLimit starts the next queued task, in the order of the indexes
StartTask(i) ==
  /\ eret = "running"
  /\ tasks[i] = "queued"
  /\ \A j \in 1..(i - 1) : tasks[j] # "queued"
  /\ Cardinality(Active) < HtmlConcurrency
  /\ IF rows[i].watchCount # NULL
     THEN Finish(i, NULL, elog)
     ELSE /\ tasks' = [tasks EXCEPT ![i] = "delay"]
          /\ UNCHANGED <<out, elog>>
  /\ UNCHANGED <<rows, eret>>
  /\ UNCHANGED <<fetchVars, sharedVars, shopVars, searchVars, extVars>>

\* fetchWatchCountForRow from step 3 on: the Shopping API, unless blocked
ShoppingPhase(i, legacy, cache, log, hitBefore, numBefore) ==
  IF isShoppingBlocked
  THEN /\ Finish(i, NULL, log)
       /\ watchCountCache' = cache
       /\ UNCHANGED shopLog
  ELSE LET gate == ShoppingGate(legacy)
       IN /\ UNCHANGED shopLog
          /\ IF gate = "dispatch"
             THEN /\ tasks' = [tasks EXCEPT ![i] = "shop"]
                  /\ elog' = [log EXCEPT !.netAfterHit = @ \/ hitBefore,
                                          !.shopAfterHtmlNum = @ \/ numBefore]
                  /\ watchCountCache' = cache
                  /\ UNCHANGED out
             ELSE IF gate = "cached"
             THEN /\ Finish(i, CacheGet(legacy), Sourced(log, i))
                  /\ watchCountCache' = CacheSet(cache, legacy, CacheGet(legacy), NULL)
             ELSE /\ Finish(i, NULL, log)
                  /\ watchCountCache' = cache

\* a lookup that never takes the cache's word
CacheHit_Never(legacy) == FALSE

\* typeof cached === "number"
CacheHit(legacy) == CacheGet(legacy) # NULL

\* the inter-request delay of task i is over: fetchWatchCountForRow up to its
\* first await
AfterDelay(i) ==
  /\ tasks[i] = "delay"
  /\ LET legacy == extractLegacyId(rows[i])
         hitNow == legacy # NULL /\ CacheGet(legacy) # NULL
         log == [elog EXCEPT !.hit = @ \/ hitNow]
     IN IF legacy = NULL
        THEN /\ Finish(i, NULL, elog)
             /\ UNCHANGED <<watchCountCache, shopLog>>
        ELSE IF CacheHit(legacy)
        THEN /\ Finish(i, CacheGet(legacy), Sourced(log, i))
             /\ UNCHANGED <<watchCountCache, shopLog>>
        ELSE IF rows[i].url # NULL
        THEN /\ tasks' = [tasks EXCEPT ![i] = "html"]
             /\ elog' = [log EXCEPT !.netAfterHit = @ \/ hitNow]
             /\ UNCHANGED <<out, watchCountCache, shopLog>>
        ELSE ShoppingPhase(i, legacy, watchCountCache, log, hitNow, FALSE)
  /\ UNCHANGED <<rows, eret, now, shoppingApiBlockedUntil, clientId>>
  /\ UNCHANGED <<fetchVars, shopVars, searchVars, extVars>>

\* the listing page of task i is answered
HtmlResponse(i) ==
  /\ tasks[i] = "html"
  /\ \E rep \in HtmlReplies(rows[i].url) :
       LET legacy == extractLegacyId(rows[i])
           watchCount == fetchWatchCountFromHTML(rep)
           log == IF HtmlCarriesCount(rep) THEN Sourced(elog, i) ELSE elog
       IN IF watchCount # NULL
          THEN /\ Finish(i, watchCount, log)
               /\ watchCountCache' = CacheSet(watchCountCache, legacy, watchCount, NULL)
               /\ UNCHANGED shopLog
          ELSE ShoppingPhase(i, legacy, watchCountCache, log, FALSE, watchCount # NULL)
  /\ UNCHANGED <<rows, eret, now, shoppingApiBlockedUntil, clientId>>
  /\ UNCHANGED <<fetchVars, shopVars, searchVars, extVars>>

\* the GetSingleItem request of task i is answered
ShopResponse(i) ==
  /\ tasks[i] = "shop"
  /\ \E rep \in SingleReplies(extractLegacyId(rows[i])) :
       LET legacy == extractLegacyId(rows[i])
           watchCount == SingleResult(rep)
       IN /\ IF rep.kind = "ipLimit"
             THEN /\ shoppingApiBlockedUntil' = blockShoppingFor(SHOPPING_COOLDOWN_MS)
                  /\ shopLog' = LogTrip(shopLog)
             ELSE UNCHANGED <<shoppingApiBlockedUntil, shopLog>>
          /\ IF watchCount # NULL
             THEN /\ Finish(i, watchCount, Sourced(elog, i))
                  /\ watchCountCache' = CacheSet(watchCountCache, legacy, watchCount, NULL)
             ELSE /\ Finish(i, NULL, elog)
                  /\ UNCHANGED watchCountCache
  /\ UNCHANGED <<rows, eret, now, clientId>>
  /\ UNCHANGED <<fetchVars, shopVars, searchVars, extVars>>

\* await Promise.all(tasks) is over: return out
EnrichReturn ==
  /\ eret = "running"
  /\ \A i \in 1..Len(tasks) : tasks[i] = "done"
  /\ eret' = "returned"
  /\ UNCHANGED <<rows, out, tasks, elog>>
  /\ UNCHANGED <<fetchVars, sharedVars, shopVars, searchVars, extVars>>

\* a step of the enrichment itself
EnrichStep ==
  \/ \E i \in 1..Len(rows) : StartTask(i)
  \/ \E i \in 1..Len(rows) : AfterDelay(i)
  \/ \E i \in 1..Len(rows) : HtmlResponse(i)
  \/ \E i \in 1..Len(rows) : ShopResponse(i)
  \/ EnrichReturn

NextEnrich ==
  \/ Tick
  \/ \E i \in 1..Len(rows) : StartTask(i)
  \/ \E i \in 1..Len(rows) : AfterDelay(i)
  \/ \E i \in 1..Len(rows) : HtmlResponse(i)
  \/ \E i \in 1..Len(rows) : ShopResponse(i)
  \/ EnrichReturn

-----------------------------------------------------------------------------
(* getAppToken (browseAxios.ts) *)

BROWSE_SCOPE == "buy.browse"
BASE_SCOPE == "api_scope"

\* expires_in of a token response, in seconds; NULL when the field is absent
ExpiresInChoices == {NULL, 930, 931}

\* what a POST to /identity/v1/oauth2/token may bring: no response at all
\* (threw), or a response of some status; validateStatus: () => true lets
\* every status through
TokenReplies ==
  {[threw |-> TRUE, status |-> 0, error |-> "none", access_token |-> FALSE,
    expires_in |-> NULL]}
  \cup {[threw |-> FALSE, status |-> 200, error |-> "none", access_token |-> TRUE,
         expires_in |-> e] : e \in ExpiresInChoices}
  \cup {[threw |-> FALSE, status |-> st.status, error |-> st.error,
         access_token |-> FALSE, expires_in |-> NULL] :
          st \in {[status |-> 200, error |-> "none"],
                  [status |-> 400, error |-> "invalid_scope"],
                  [status |-> 401, error |-> "invalid_client"],
                  [status |-> 429, error |-> "none"],
                  [status |-> 500, error |-> "server_error"]}}

\* how a reply is entered in the history of a call
ReplyClass(rep) ==
  IF rep.threw THEN "transport"
  ELSE IF rep.status >= 200 /\ rep.status < 300 /\ rep.access_token THEN "ok"
  ELSE IF rep.error = "invalid_scope" THEN "invalid_scope"
  ELSE IF rep.status >= 500 THEN "5xx"
  ELSE IF rep.status = 429 THEN "429"
  ELSE IF rep.status >= 400 THEN "4xx"
  ELSE "no_token"

\* one pass of the loop body of requestWithRetry: the token is there ("ok"),
\* the function returns without one ("invalidScope", "fail") or the loop goes
\* on ("retry")
requestWithRetryBody(rep) ==
  IF rep.threw THEN "retry"
  ELSE IF rep.status >= 200 /\ rep.status < 300 /\ rep.access_token THEN "ok"
  ELSE IF rep.error = "invalid_scope" THEN "invalidScope"
  ELSE IF rep.status >= 500 \/ rep.status = 429 THEN "retry"
  ELSE "fail"

\* for (let attempt = 0; attempt < 3; attempt++)
TokenAttempts == 3

\* Number(res.data?.expires_in ?? 3600)
ExpiresIn(rep) == IF rep.expires_in # NULL THEN rep.expires_in ELSE 3600

\* cachedToken && Date.now() < cachedToken.expiresAt - 30_000
CachedTokenValid == cachedToken # <<>> /\ now < cachedToken.expiresAt - 30000

InitToken ==
  /\ credentials \in BOOLEAN
  /\ cachedToken = <<>>
  /\ tpc = "idle"
  /\ tscope = "none"
  /\ tattempt = 0
  /\ tresult = "none"
  /\ tlog = <<>>

\* getAppToken is called: without credentials it returns "mock_token", with a
\* valid cachedToken that token, else it starts requestWithRetry of buy.browse
GetAppToken ==
  /\ tpc \in {"idle", "returned"}
  /\ tlog' = <<>>
  /\ tattempt' = 0
  /\ IF ~credentials
     THEN tresult' = "mock_token" /\ tpc' = "returned" /\ tscope' = "none"
     ELSE IF CachedTokenValid
     THEN tresult' = cachedToken.token /\ tpc' = "returned" /\ tscope' = "none"
     ELSE tresult' = "none" /\ tpc' = "requestWithRetry" /\ tscope' = BROWSE_SCOPE
  /\ UNCHANGED <<cachedToken, credentials>>
  /\ UNCHANGED <<fetchVars, sharedVars, shopVars, enrichVars, searchVars,
                 authVars, pureVars, cascVars>>

\* the token request under way is answered
TokenResponse ==
  /\ tpc = "requestWithRetry"
  /\ \E rep \in TokenReplies :
       LET step == requestWithRetryBody(rep)
           exhausted == step = "retry" /\ tattempt + 1 >= TokenAttempts
       IN /\ tlog' = Append(tlog, [scope |-> tscope, class |-> ReplyClass(rep)])
          /\ IF step = "ok"
             THEN /\ cachedToken' = [token |-> "token",
                                     expiresAt |-> now + ExpiresIn(rep) * 1000]
                  /\ tresult' = "token"
                  /\ tpc' = "returned"
                  /\ UNCHANGED <<tscope, tattempt>>
             ELSE IF step = "retry" /\ ~exhausted
             THEN /\ tattempt' = tattempt + 1
                  /\ UNCHANGED <<cachedToken, tresult, tpc, tscope>>
             ELSE IF tscope = BROWSE_SCOPE
             THEN /\ tscope' = BASE_SCOPE
                  /\ tattempt' = 0
                  /\ UNCHANGED <<cachedToken, tresult, tpc>>
             ELSE /\ tresult' = "mock_token"
                  /\ tpc' = "returned"
                  /\ UNCHANGED <<cachedToken, tscope, tattempt>>
  /\ UNCHANGED credentials
  /\ UNCHANGED <<fetchVars, sharedVars, shopVars, enrichVars, searchVars,
                 authVars, pureVars, cascVars>>

NextToken ==
  \/ GetAppToken
  \/ TokenResponse
  \/ Tick

\* how a call of getAppToken may end, as searchBySellersAxios sees it: the
\* credentials are not set, a token is there (cachedToken, or a request of
\* either scope brought one), or requestWithRetry failed for both scopes
TokenEnds == {"no_credentials", "token", "both_scopes_failed"}

\* the value getAppToken returns at such an end
getAppTokenReturn(e) == IF e = "token" THEN "token" ELSE "mock_token"

-----------------------------------------------------------------------------
(* getAppAccessToken (auth.ts) *)

\* `appToken:${env.EBAY_ENV}`, of the environment in force and of the other one
TokenCacheKeys == {"appToken:production", "appToken:sandbox"}
cacheKey == "appToken:production"

\* rec of cache.get(key): the entry is there and has not outlived its ttl
CacheLive(cache, key) ==
  ~cache[key].absent /\ now - cache[key].start <= cache[key].ttl

\* a token that counts as valid when exactly 60 s are left
CachedStillValid_Inclusive(cached) == cached.expiresAt >= now + 60000

\* cached.expiresAt > Date.now() + 60_000
CachedStillValid(cached) == cached.expiresAt > now + 60000

\* the replies to fetch(endpoint, ...): those of the token endpoint, a 2xx one
\* carrying access_token and expires_in (in seconds)
AuthReplies ==
  {rep \in TokenReplies : ~rep.access_token /\ (rep.threw \/ rep.status # 200)}
  \cup {[threw |-> FALSE, status |-> 200, error |-> "none", access_token |-> TRUE,
         expires_in |-> e] : e \in {960, 961, 1800}}

\* const maxRetries = 3
maxRetries == 3

InitAuth ==
  /\ credentials \in BOOLEAN
  /\ tokenCache = [k \in TokenCacheKeys |-> NoEntry]
  /\ apc = "idle"
  /\ ai = 0
  /\ aj = -1
  /\ aresult = "none"
  /\ alog = [called |-> FALSE, validAtCall |-> FALSE, narrow |-> 0, base |-> 0,
             baseRuns |-> 0, after4xx |-> FALSE, fallbackAfter |-> "none",
             issued |-> [accessToken |-> NULL, expiresAt |-> 0]]

\* history of a new call: whether the token issued last was, at the call,
\* valid for more than 60 s; the requests made are counted from zero
LogAuthCall(requested) ==
  [alog EXCEPT !.called = TRUE,
               !.validAtCall = alog.issued.expiresAt > now + 60000,
               !.narrow = IF requested THEN 1 ELSE 0,
               !.base = 0, !.baseRuns = 0, !.after4xx = FALSE,
               !.fallbackAfter = "none"]

\* getAppAccessToken is called: the cached token is returned, or the missing
\* credentials are thrown, or request(BROWSE_SCOPE) makes its first fetch
GetAppAccessToken ==
  /\ apc \in {"idle", "returned", "threw"}
  /\ ai' = 0
  /\ aj' = -1
  /\ IF CacheLive(tokenCache, cacheKey) /\ CachedStillValid(tokenCache[cacheKey].value)
     THEN /\ aresult' = tokenCache[cacheKey].value.accessToken
          /\ apc' = "returned"
          /\ alog' = LogAuthCall(FALSE)
     ELSE IF ~credentials
     THEN /\ aresult' = "none"
          /\ apc' = "threw"
          /\ alog' = LogAuthCall(FALSE)
     ELSE /\ aresult' = "none"
          /\ apc' = "request"
          /\ alog' = LogAuthCall(TRUE)
  /\ UNCHANGED <<tokenCache, credentials>>
  /\ UNCHANGED <<fetchVars, sharedVars, shopVars, enrichVars, searchVars,
                 tokVars, pureVars, cascVars>>

\* the fetch under way is answered. A 2xx reply ends the call with its token,
\* which is put into tokenCache. invalid_scope for the narrow scope starts the
\* nested request(BASE_SCOPE). Every other reply, and a fetch that threw, is
\* caught by the catch of the loop, which goes on to the next i; when the nested
\* request has used up its loop, its throw is swallowed by the inner catch {}
\* and the throw of line 56 takes the outer loop to its next i.
AuthResponse ==
  /\ apc = "request"
  /\ \E rep \in AuthReplies :
       LET class == ReplyClass(rep)
           nested == aj >= 0
           is4xx == class \in {"4xx", "invalid_scope"}
       IN IF class = "ok"
          THEN /\ aresult' = now
               /\ apc' = "returned"
               /\ tokenCache' = CacheSet(tokenCache, cacheKey,
                                  [accessToken |-> now,
                                   expiresAt |-> now + rep.expires_in * 1000],
                                  rep.expires_in * 1000)
               /\ alog' = [alog EXCEPT !.issued =
                             [accessToken |-> now,
                              expiresAt |-> now + rep.expires_in * 1000]]
               /\ UNCHANGED <<ai, aj>>
          ELSE IF ~nested /\ class = "invalid_scope"
          THEN /\ aj' = 0
               /\ alog' = [alog EXCEPT !.base = @ + 1, !.baseRuns = @ + 1,
                                       !.fallbackAfter = class]
               /\ UNCHANGED <<ai, apc, aresult, tokenCache>>
          ELSE IF nested /\ aj + 1 < maxRetries
          THEN /\ aj' = aj + 1
               /\ alog' = [alog EXCEPT !.base = @ + 1,
                                       !.after4xx = @ \/ is4xx]
               /\ UNCHANGED <<ai, apc, aresult, tokenCache>>
          ELSE IF ai + 1 < maxRetries
          THEN /\ ai' = ai + 1
               /\ aj' = -1
               /\ alog' = [alog EXCEPT !.narrow = @ + 1,
                                       !.after4xx = @ \/ is4xx \/ nested]
               /\ UNCHANGED <<apc, aresult, tokenCache>>
          ELSE /\ apc' = "threw"
               /\ UNCHANGED <<ai, aj, aresult, tokenCache, alog>>
  /\ UNCHANGED credentials
  /\ UNCHANGED <<fetchVars, sharedVars, shopVars, enrichVars, searchVars,
                 tokVars, pureVars, cascVars>>

NextAuth ==
  \/ GetAppAccessToken
  \/ AuthResponse
  \/ Tick

-----------------------------------------------------------------------------
(* searchBySellersAxios *)

MaxSellers == 2

SellerNames == {"a", "b"}

SellerSeqs(n) == UNION {[1..k -> SellerNames] : k \in 0..n}

\* Number(priceValue ?? Infinity) of a row with no price
Infinity == 1000000000

\* the SampleItems the Browse API holds of a seller; absent fields are NULL
SellerListings(s) ==
  IF s = "a"
  THEN {[itemId |-> 100001, title |-> 1, price_value |-> 10, itemWebUrl |-> 100001,
         seller_username |-> "a", itemCreationDate |-> 2, watchCount |-> NULL],
        [itemId |-> 100002, title |-> 2, price_value |-> NULL, itemWebUrl |-> NULL,
         seller_username |-> "a", itemCreationDate |-> NULL, watchCount |-> NULL]}
  ELSE {[itemId |-> 100003, title |-> 3, price_value |-> 5, itemWebUrl |-> 100003,
         seller_username |-> "b", itemCreationDate |-> 2, watchCount |-> NULL],
        [itemId |-> NULL, title |-> 4, price_value |-> 10, itemWebUrl |-> 123,
         seller_username |-> "b", itemCreationDate |-> 1, watchCount |-> NULL]}

\* what a call of fetchSellerListings ends in: it returns a list of the
\* seller's items (repetitions included), or it throws, whatever it had
\* gathered by then being lost with its frame
FetchOutcomes(s) ==
  {[seller |-> s, threw |-> t, items |-> q] :
     t \in BOOLEAN, q \in UNION {[1..k -> SellerListings(s)] : k \in 0..2}}

\* generateMockData: Math.min(maxPerSeller, 5) items per seller with an itemId
\* mock_<sellerIndex>_<i> (no run of six digits) and a random watchCount, here
\* one of 1 and 50; price and date, random too, are held fixed
MockCount(max) == Min(max, 5)

generateMockData(ss, max) ==
  LET n == Len(ss) * MockCount(max)
      sellerIndex(k) == (k - 1) \div MockCount(max)
      i(k) == (k - 1) % MockCount(max)
  IN {[k \in 1..n |->
         [itemId |-> sellerIndex(k) * 10 + i(k), title |-> 10 + k,
          price_value |-> 10, itemWebUrl |-> sellerIndex(k) * 10 + i(k),
          seller_username |-> ss[sellerIndex(k) + 1], itemCreationDate |-> 1,
          watchCount |-> w[k]]] :
      w \in [1..n -> {1, 50}]}

\* it.f ?? null, it.f?.g ?? null: the value at a property path of an item, null
\* when there is none; the paths price.value, price.currency and
\* seller.username are the fields price_value, price_currency, seller_username
Field(it, f) == IF f \in DOMAIN it THEN it[f] ELSE NULL

normalize(items) ==
  [k \in 1..Len(items) |->
     [itemId |-> Field(items[k], "itemId"),
      title |-> Field(items[k], "title"),
      priceValue |-> Field(items[k], "price_value"),
      priceCurrency |-> Field(items[k], "price_currency"),
      url |-> Field(items[k], "itemWebUrl"),
      seller |-> Field(items[k], "seller_username"),
      itemCreationDate |-> Field(items[k], "itemCreationDate"),
      watchCount |-> Field(items[k], "watchCount")]]

\* a comparator that takes an absent watchCount for 0
WatchCompare_AbsentZero(a, b) ==
  (IF b.watchCount # NULL THEN b.watchCount ELSE 0)
    - (IF a.watchCount # NULL THEN a.watchCount ELSE 0)

\* (a, b) => (b.watchCount ?? -1) - (a.watchCount ?? -1)
WatchCompare(a, b) ==
  (IF b.watchCount # NULL THEN b.watchCount ELSE -1)
    - (IF a.watchCount # NULL THEN a.watchCount ELSE -1)

\* a date comparator that takes an absent price for 0
DateCompare_AbsentZero(a, b) ==
  LET bd == IF b.itemCreationDate # NULL THEN b.itemCreationDate ELSE 0
      ad == IF a.itemCreationDate # NULL THEN a.itemCreationDate ELSE 0
      ap == IF a.priceValue # NULL THEN a.priceValue ELSE 0
      bp == IF b.priceValue # NULL THEN b.priceValue ELSE 0
  IN IF bd # ad THEN bd - ad ELSE ap - bp

\* the comparator of the date branch; Infinity - Infinity is NaN, which sort
\* takes for 0
DateCompare(a, b) ==
  LET bd == IF b.itemCreationDate # NULL THEN b.itemCreationDate ELSE 0
      ad == IF a.itemCreationDate # NULL THEN a.itemCreationDate ELSE 0
      ap == IF a.priceValue # NULL THEN a.priceValue ELSE Infinity
      bp == IF b.priceValue # NULL THEN b.priceValue ELSE Infinity
  IN IF bd # ad THEN bd - ad ELSE ap - bp

Compare(byWatch, a, b) == IF byWatch THEN WatchCompare(a, b) ELSE DateCompare(a, b)

RECURSIVE StableSort(_, _)
\* Array.prototype.sort, which is stable: r goes behind every element that
\* does not compare greater than it
StableSort(rws, byWatch) ==
  IF rws = <<>> THEN <<>>
  ELSE LET n == Len(rws)
           head == StableSort(SubSeq(rws, 1, n - 1), byWatch)
           r == rws[n]
           before == {j \in 1..Len(head) : \A m \in 1..j : Compare(byWatch, head[m], r) <= 0}
           at == Cardinality(before)
       IN SubSeq(head, 1, at) \o <<r>> \o SubSeq(head, at + 1, Len(head))

sortForDisplay(rws) ==
  StableSort(rws, \E k \in 1..Len(rws) : rws[k].watchCount # NULL)

\* what enrichWatchCounts may return for rws: the same rows, a null
\* watchCount replaced or not by the count of the row's listing
EnrichOutcomes(rws) ==
  LET fillable == {k \in 1..Len(rws) :
                     rws[k].watchCount = NULL /\ extractLegacyId(rws[k]) # NULL}
  IN {[k \in 1..Len(rws) |->
         IF k \in found THEN [rws[k] EXCEPT !.watchCount = 7] ELSE rws[k]] :
      found \in SUBSET fillable}

\* catch { continue; }
AfterSellerThrew_Rethrow == "throw"

AfterSellerThrew == "continue"

InitSearch ==
  /\ sellers \in SellerSeqs(MaxSellers)
  /\ maxPerSeller \in 1..MaxPerSellerBound
  /\ token = "none"
  /\ spc = "getAppToken"
  /\ sidx = 1
  /\ results = <<>>
  /\ sresult = <<>>
  /\ slog = <<>>
  /\ started = <<>>
  /\ tokenEnd = "none"

\* getAppToken answers; with the mock token the mock data stand in for results
TokenReturns ==
  /\ spc = "getAppToken"
  /\ \E e \in TokenEnds :
       /\ tokenEnd' = e
       /\ token' = getAppTokenReturn(e)
       /\ IF getAppTokenReturn(e) = "mock_token"
          THEN /\ results' \in generateMockData(sellers, maxPerSeller)
               /\ spc' = "enrichWatchCounts"
          ELSE /\ results' = results
               /\ spc' = IF sellers = <<>> THEN "enrichWatchCounts"
                         ELSE "fetchSellerListings"
  /\ UNCHANGED <<sellers, sidx, sresult, slog, started, maxPerSeller>>
  /\ UNCHANGED <<catalogue, locationCountry, fpc, acc, dedup, offset, nextUrl,
                 attempt, band, fresult, budget, flog>>
  /\ UNCHANGED <<sharedVars, shopVars, enrichVars, extVars>>

\* a for loop that is left after its first round
LoopDone_First(i) == TRUE

\* for (const s of sellers): the round of seller i was the last
LoopDone(i) == i = Len(sellers)

\* the loop calls fetchSellerListings for the seller it is at and awaits it
SellerStarts ==
  /\ spc = "fetchSellerListings"
  /\ spc' = "awaitSeller"
  /\ started' = Append(started, sellers[sidx])
  /\ UNCHANGED <<sellers, token, sidx, results, sresult, slog, tokenEnd, maxPerSeller>>
  /\ UNCHANGED <<catalogue, locationCountry, fpc, acc, dedup, offset, nextUrl,
                 attempt, band, fresult, budget, flog>>
  /\ UNCHANGED <<sharedVars, shopVars, enrichVars, extVars>>

\* fetchSellerListings of the seller the loop is at returns or throws
SellerReturns ==
  /\ spc = "awaitSeller"
  /\ \E o \in FetchOutcomes(sellers[sidx]) :
       /\ slog' = Append(slog, o)
       /\ results' = IF o.threw THEN results ELSE results \o o.items
       /\ spc' = IF o.threw /\ AfterSellerThrew = "throw" THEN "threw"
                 ELSE IF LoopDone(sidx) THEN "enrichWatchCounts"
                 ELSE "fetchSellerListings"
       /\ sidx' = sidx + 1
  /\ UNCHANGED <<sellers, token, sresult, started, tokenEnd, maxPerSeller>>
  /\ UNCHANGED <<catalogue, locationCountry, fpc, acc, dedup, offset, nextUrl,
                 attempt, band, fresult, budget, flog>>
  /\ UNCHANGED <<sharedVars, shopVars, enrichVars, extVars>>

\* enrichWatchCounts(normalize(results)) returns; the sorted rows are returned
EnrichReturns ==
  /\ spc = "enrichWatchCounts"
  /\ \E enriched \in EnrichOutcomes(normalize(results)) :
       sresult' = sortForDisplay(enriched)
  /\ spc' = "returned"
  /\ UNCHANGED <<sellers, token, sidx, results, slog, started, tokenEnd, maxPerSeller>>
  /\ UNCHANGED <<catalogue, locationCountry, fpc, acc, dedup, offset, nextUrl,
                 attempt, band, fresult, budget, flog>>
  /\ UNCHANGED <<sharedVars, shopVars, enrichVars, extVars>>

NextSearch ==
  \/ TokenReturns
  \/ SellerStarts
  \/ SellerReturns
  \/ EnrichReturns

-----------------------------------------------------------------------------
(* sortForDisplay called on its own (SpecSort) *)

MaxSortLen == 3

\* the fields the comparators read: watchCount (null, 0 or more), the
\* timestamp Date.parse makes of itemCreationDate, Number(priceValue)
SortKeys ==
  {[watchCount |-> NULL, itemCreationDate |-> d, priceValue |-> pv] :
     d \in {NULL, 1, 2}, pv \in {NULL, 5, 10}}
  \cup {[watchCount |-> w, itemCreationDate |-> 1, priceValue |-> 5] : w \in {0, 5}}

\* rows of these keys, the title telling the position in the input
SortInputs ==
  {[k \in 1..Len(q) |->
      [title |-> k, watchCount |-> q[k].watchCount,
       itemCreationDate |-> q[k].itemCreationDate, priceValue |-> q[k].priceValue]] :
   q \in UNION {[1..n -> SortKeys] : n \in 0..MaxSortLen}}

NotCalled == [done |-> FALSE]

InitSort == arg \in SortInputs /\ ret = NotCalled

\* sortForDisplay(rows) returns; rows itself is left as it was ([...rows])
SortCall ==
  /\ ret = NotCalled
  /\ ret' = [done |-> TRUE, value |-> sortForDisplay(arg)]
  /\ UNCHANGED arg
  /\ UNCHANGED <<fetchVars, sharedVars, shopVars, enrichVars, searchVars,
                 envVars, tokVars, authVars, cascVars>>

NextSort == SortCall

-----------------------------------------------------------------------------
(* a cache made by createCache, used on its own (SpecCache) *)

\* ttlMs of a set: left out (NULL), 7.5 min, 30 min
TtlChoices == {NULL, 450000, 1800000}

NeverSet == [set |-> FALSE]

\* arg holds, per key, the set made last and not deleted since
InitCache ==
  /\ now = 0
  /\ shoppingApiBlockedUntil = 0
  /\ watchCountCache = [id \in LegacyIds |-> NoEntry]
  /\ clientId = FALSE
  /\ shopLog = <<>>
  /\ arg = [id \in LegacyIds |-> NeverSet]
  /\ ret = NotCalled

\* cache.set(key, value, ttlMs)
CacheSetCall ==
  /\ \E id \in LegacyIds, v \in {3, 7}, ttlMs \in TtlChoices :
       /\ watchCountCache' = CacheSet(watchCountCache, id, v, ttlMs)
       /\ arg' = [arg EXCEPT ![id] = [set |-> TRUE, t |-> now, value |-> v,
                                      ttl |-> ttlMs]]
  /\ ret' = NotCalled
  /\ UNCHANGED <<now, shoppingApiBlockedUntil, clientId, shopLog>>
  /\ UNCHANGED <<fetchVars, shopVars, enrichVars, searchVars, envVars, tokVars,
                 authVars, cascVars>>

\* cache.delete(key)
CacheDeleteCall ==
  /\ \E id \in LegacyIds :
       /\ watchCountCache' = [watchCountCache EXCEPT ![id] = NoEntry]
       /\ arg' = [arg EXCEPT ![id] = NeverSet]
  /\ ret' = NotCalled
  /\ UNCHANGED <<now, shoppingApiBlockedUntil, clientId, shopLog>>
  /\ UNCHANGED <<fetchVars, shopVars, enrichVars, searchVars, envVars, tokVars,
                 authVars, cascVars>>

\* cache.get(key); ret tells the get made in the current state
CacheGetCall ==
  /\ \E id \in LegacyIds :
       ret' = [done |-> TRUE, key |-> id, value |-> CacheGet(id)]
  /\ UNCHANGED arg
  /\ UNCHANGED <<fetchVars, sharedVars, shopVars, enrichVars, searchVars, envVars,
                 tokVars, authVars, cascVars>>

\* time passes between two calls
CacheTick ==
  /\ now < MaxTicks * TickMs
  /\ now' = now + TickMs
  /\ ret' = NotCalled
  /\ UNCHANGED arg
  /\ UNCHANGED <<shoppingApiBlockedUntil, watchCountCache, clientId, shopLog>>
  /\ UNCHANGED <<fetchVars, shopVars, enrichVars, searchVars, envVars, tokVars,
                 authVars, cascVars>>

NextCache ==
  \/ CacheSetCall
  \/ CacheDeleteCall
  \/ CacheGetCall
  \/ CacheTick

-----------------------------------------------------------------------------
(* extractLegacyId called on its own (SpecLegacyId) *)

\* rows over itemIds and urls with no ID, a short ID, and IDs of six digits
LegacyIdInputs ==
  {[itemId |-> i, url |-> u] :
     i \in {NULL, 12345, 100001, 100002, 100003, 100004, 100005},
     u \in {NULL, 12345, -12345, 100001, 100002, 100006, -100001, -100002}}

InitLegacyId == arg \in LegacyIdInputs /\ ret = NotCalled

LegacyIdCall ==
  /\ ret = NotCalled
  /\ ret' = [done |-> TRUE, value |-> extractLegacyId(arg)]
  /\ UNCHANGED arg
  /\ UNCHANGED <<fetchVars, sharedVars, shopVars, enrichVars, searchVars,
                 envVars, tokVars, authVars, cascVars>>

NextLegacyId == LegacyIdCall

-----------------------------------------------------------------------------
(* normalize called on its own (SpecNormalize) *)

\* source items with each property there or not (NULL); strings are told by
\* numbers
ItemChoices ==
  [itemId : {NULL, 100001}, title : {NULL, 1}, price_value : {NULL, 10},
   price_currency : {NULL, 840}, itemWebUrl : {NULL, 100001},
   seller_username : {NULL, 1}, itemCreationDate : {NULL, 2},
   watchCount : {NULL, 7}]

InitNormalize ==
  /\ arg \in {<<>>} \cup {<<it>> : it \in ItemChoices}
  /\ ret = NotCalled

\* normalize(items) returns and the rows it made are handed to normalize again
NormalizeCall ==
  /\ ret = NotCalled
  /\ ret' = [done |-> TRUE, value |-> normalize(arg),
             twice |-> normalize(normalize(arg))]
  /\ UNCHANGED arg
  /\ UNCHANGED <<fetchVars, sharedVars, shopVars, enrichVars, searchVars,
                 envVars, tokVars, authVars, cascVars>>

NextNormalize == NormalizeCall

-----------------------------------------------------------------------------
(* searchWebForLegacyIds called on its own (SpecWeb) *)

MaxDesired == 2
MaxMatches == 2

\* the IDs the patterns find in a page, in the order of the page
MatchSeqs == UNION {[1..n -> {1, 2, 3}] : n \in 0..MaxMatches}

\* what axios.get of the seller's search page ends in: it throws (timeout, no
\* connection, a status outside 2xx), or it brings a page, told by the
\* matches of /itm/<id> and of item=<id> in it
WebReplies ==
  {[threw |-> TRUE, path |-> <<>>, query |-> <<>>]}
  \cup {[threw |-> FALSE, path |-> p, query |-> q] : p, q \in MatchSeqs}

RECURSIVE AddIds_NoDedup(_, _, _)
\* a loop that collects into an array instead of a Set
AddIds_NoDedup(ids, matches, desired) ==
  IF matches = <<>> THEN ids
  ELSE IF Len(ids) + 1 >= desired THEN Append(ids, Head(matches))
  ELSE AddIds_NoDedup(Append(ids, Head(matches)), Tail(matches), desired)

RECURSIVE AddIds(_, _, _)
\* while ((m = re.exec(html))) { ids.add(id); if (ids.size >= desired) break; }
\* with the Set ids held as the sequence of its elements in insertion order
AddIds(ids, matches, desired) ==
  IF matches = <<>> THEN ids
  ELSE LET id == Head(matches)
           added == IF id \in Range(ids) THEN ids ELSE Append(ids, id)
       IN IF Len(added) >= desired THEN added
          ELSE AddIds(added, Tail(matches), desired)

\* the value the function returns; every throw inside is caught and answered
\* with the empty list
searchWebForLegacyIds(rep, desired) ==
  IF rep.threw THEN <<>>
  ELSE LET first == AddIds(<<>>, rep.path, desired)
           ids == IF Len(first) >= desired THEN first
                  ELSE AddIds(first, rep.query, desired)
       IN Take(ids, desired)

InitWeb ==
  /\ arg \in {[reply |-> rep, desired |-> d] : rep \in WebReplies, d \in 1..MaxDesired}
  /\ ret = NotCalled

\* the call returns; the try block spans the whole body, so it never throws
WebCall ==
  /\ ret = NotCalled
  /\ ret' = [done |-> TRUE, threw |-> FALSE,
             value |-> searchWebForLegacyIds(arg.reply, arg.desired)]
  /\ UNCHANGED arg
  /\ UNCHANGED <<fetchVars, sharedVars, shopVars, enrichVars, searchVars,
                 envVars, tokVars, authVars, cascVars>>

NextWeb == WebCall

-----------------------------------------------------------------------------
(* enrichWatchCounts with its modes: html_first, and the last mode, taken
   when WATCHCOUNT_MODE names none of the others (SpecCascade) *)

MaxCascRows == 2

CascModes == {"html_first", "other"}

\* the rows handed in: two listings of one seller, a listing whose count is
\* known, one with no seller (out[i].seller || "" is ""), one with no legacy ID
CascRowChoices ==
  {[itemId |-> 100001, url |-> 100001, seller |-> "s1", watchCount |-> NULL],
   [itemId |-> 100002, url |-> NULL,   seller |-> "s1", watchCount |-> NULL],
   [itemId |-> 100002, url |-> NULL,   seller |-> "s2", watchCount |-> 3],
   [itemId |-> 100001, url |-> 100001, seller |-> "",   watchCount |-> NULL],
   [itemId |-> NULL,   url |-> 123,    seller |-> "s2", watchCount |-> NULL]}

\* typeof r.watchCount === "number"
HasCount(r) == r.watchCount # NULL

Missing(o) == {i \in 1..Len(o) : ~HasCount(o[i])}

\* the count a source states for a listing
WatchersOf(r) ==
  IF extractLegacyId(r) = NULL THEN 1 ELSE ServerWatchCount(extractLegacyId(r)) + 1

RECURSIVE SellerEntries(_, _, _)
\* the entries of a Map seller -> indices filled in a loop over the rows in
\* `want`, in the order of insertion
SellerEntries(o, want, i) ==
  IF i > Len(o) THEN <<>>
  ELSE LET s == o[i].seller
           rest == SellerEntries(o, want, i + 1)
       IN IF i \in want /\ \A k \in 1..(i - 1) : ~(k \in want /\ o[k].seller = s)
          THEN <<[seller |-> s, idxs |-> {k \in want : o[k].seller = s}]>> \o rest
          ELSE rest

\* missingBySeller: the rows with a seller and without a count
missingBySeller(o) == SellerEntries(o, {i \in Missing(o) : o[i].seller # ""}, 1)

\* the first loop of the last mode: a live cache entry fills the row
PreFill(o) ==
  [i \in 1..Len(o) |->
     IF ~HasCount(o[i]) /\ extractLegacyId(o[i]) # NULL
          /\ CacheGet(extractLegacyId(o[i])) # NULL
     THEN [o[i] EXCEPT !.watchCount = CacheGet(extractLegacyId(o[i]))]
     ELSE o[i]]

\* missingBySellerPre: rows without count, with legacy ID and seller
missingBySellerPre(o) ==
  SellerEntries(o, {i \in Missing(o) : o[i].seller # "" /\ extractLegacyId(o[i]) # NULL}, 1)

\* the rows idxs take the count of a map that holds the legacy IDs ids
Fill(o, idxs, ids) ==
  [i \in 1..Len(o) |->
     IF i \in idxs /\ extractLegacyId(o[i]) # NULL /\ extractLegacyId(o[i]) \in ids
     THEN [o[i] EXCEPT !.watchCount = WatchersOf(o[i])]
     ELSE o[i]]

\* the legacy IDs of the rows idxs
IdsOf(o, idxs) == {extractLegacyId(o[i]) : i \in idxs} \ {NULL}

\* history entry: a source was consulted for the rows rws of the array o
Consulted(src, s, rws, o) ==
  [src |-> src, seller |-> s, rows |-> rws, had |-> {i \in rws : HasCount(o[i])}]

\* what fetchWatchCountForRow does for a row: the listing pages are read, and
\* when they state no count and the row has a legacy ID and the breaker is
\* closed, the single-item Shopping call is made
RowLookups(r) ==
  {[srcs |-> <<"html">>, wc |-> WatchersOf(r)]} \cup
  (IF extractLegacyId(r) # NULL /\ ~isShoppingBlocked
   THEN {[srcs |-> <<"html", "single">>, wc |-> v] : v \in {NULL, WatchersOf(r)}}
   ELSE {[srcs |-> <<"html">>, wc |-> NULL]})

InitCasc ==
  /\ mode \in CascModes
  /\ crows \in UNION {[1..k -> CascRowChoices] : k \in 0..MaxCascRows}
  /\ cout = <<>>
  /\ cout2 = <<>>
  /\ cpc = "start"
  /\ cpend = {}
  /\ cqueue = <<>>
  /\ clog = <<>>

\* the process-wide state the call finds: the breaker open or closed, the
\* cache empty or holding the count of one listing
InitCascShared ==
  /\ now = 0
  /\ shoppingApiBlockedUntil \in {0, SHOPPING_COOLDOWN_MS}
  /\ watchCountCache \in
       {[id \in LegacyIds |-> NoEntry],
        CacheSet([id \in LegacyIds |-> NoEntry], 100001, 7, WATCH_TTL_MS)}
  /\ clientId = TRUE
  /\ shopLog = [lastTrip |-> -1,
                call |-> [made |-> FALSE, t |-> 0, trip |-> -1, cached |-> FALSE,
                          dispatched |-> FALSE]]

\* enrichWatchCounts is called and runs to its first await
CascStart ==
  /\ cpc = "start"
  /\ IF mode = "html_first"
     THEN /\ cout' = crows
          /\ cpend' = 1..Len(crows)
          /\ cqueue' = <<>>
          /\ cpc' = "html"
     ELSE /\ cout' = PreFill(crows)
          /\ cpend' = {}
          /\ cqueue' = missingBySellerPre(PreFill(crows))
          /\ cpc' = "sitePre"
  /\ UNCHANGED <<mode, crows, cout2, clog>>
  /\ UNCHANGED <<fetchVars, sharedVars, shopVars, enrichVars, searchVars, envVars,
                 tokVars, authVars, pureVars>>

\* one task of a per-row pass with fetchWatchCountForRow (the first pass of
\* html_first, the last pass of the last mode), its attempts taken together
RowTask ==
  /\ cpc \in {"html", "htmlLast"}
  /\ \E i \in cpend :
       LET row == IF cpc = "html" THEN crows[i] ELSE cout2[i]
       IN /\ cpend' = cpend \ {i}
          /\ IF HasCount(row)
             THEN UNCHANGED <<cout, cout2, clog>>
             ELSE \E look \in RowLookups(row) :
                    /\ clog' = clog \o
                         [k \in 1..Len(look.srcs) |->
                            Consulted(look.srcs[k], "", {i},
                                      IF cpc = "html" THEN cout ELSE cout2)]
                    /\ IF cpc = "html"
                       THEN /\ cout' = IF look.wc # NULL
                                       THEN [cout EXCEPT ![i].watchCount = look.wc]
                                       ELSE cout
                            /\ cout2' = cout2
                       ELSE /\ cout2' = IF look.wc # NULL
                                        THEN [cout2 EXCEPT ![i].watchCount = look.wc]
                                        ELSE cout2
                            /\ cout' = cout
  /\ UNCHANGED <<mode, crows, cpc, cqueue>>
  /\ UNCHANGED <<fetchVars, sharedVars, shopVars, enrichVars, searchVars, envVars,
                 tokVars, authVars, pureVars>>

\* one round of a loop over the seller map: fetchWatchCountsFromWatchcount
\* answers with a map (empty when the fetch fails) and the seller's rows take
\* its counts; the first loop of the last mode also caches them
SiteTask ==
  /\ cpc \in {"site", "sitePre", "sitePost"}
  /\ cqueue # <<>>
  /\ \E ids \in SUBSET LegacyIds :
       LET e == Head(cqueue)
           filled == {i \in e.idxs : extractLegacyId(cout[i]) # NULL
                                       /\ extractLegacyId(cout[i]) \in ids}
       IN /\ clog' = Append(clog, Consulted("site", e.seller, e.idxs, cout))
          /\ cout' = Fill(cout, e.idxs, ids)
          /\ watchCountCache' =
               IF cpc = "sitePre"
               THEN [id \in LegacyIds |->
                       IF id \in IdsOf(cout, filled)
                       THEN CacheSet(watchCountCache, id,
                                     ServerWatchCount(id) + 1, NULL)[id]
                       ELSE watchCountCache[id]]
               ELSE watchCountCache
  /\ cqueue' = Tail(cqueue)
  /\ UNCHANGED <<mode, crows, cout2, cpc, cpend>>
  /\ UNCHANGED <<now, shoppingApiBlockedUntil, clientId, shopLog>>
  /\ UNCHANGED <<fetchVars, shopVars, enrichVars, searchVars, envVars,
                 tokVars, authVars, pureVars>>

\* html_first after the seller loop: the rows still without count go to
\* fetchWatchCountsShoppingBatch unless the breaker is open, and out is returned
BatchPhase ==
  /\ cpc = "site"
  /\ cqueue = <<>>
  /\ LET stillMissing == Missing(cout)
         ids == IdsOf(cout, stillMissing)
         asked == {i \in stillMissing : extractLegacyId(cout[i]) # NULL}
     IN IF stillMissing # {} /\ ~isShoppingBlocked /\ ids # {}
        THEN \E got \in SUBSET ids :
               /\ clog' = Append(clog, Consulted("batch", "", asked, cout))
               /\ cout' = Fill(cout, stillMissing, got)
        ELSE UNCHANGED <<cout, clog>>
  /\ cpc' = "returned"
  /\ UNCHANGED <<mode, crows, cout2, cpend, cqueue>>
  /\ UNCHANGED <<fetchVars, sharedVars, shopVars, enrichVars, searchVars, envVars,
                 tokVars, authVars, pureVars>>

\* the last mode after its first seller loop: the legacy IDs of all rows go to
\* fetchWatchCountsShoppingBatch, and every row whose ID is answered takes
\* the count (enriched1, copied to out2)
BatchAll ==
  /\ cpc = "sitePre"
  /\ cqueue = <<>>
  /\ LET ids == IdsOf(crows, 1..Len(crows))
         asked == {i \in 1..Len(crows) : extractLegacyId(crows[i]) # NULL}
     IN IF ids # {}
        THEN \E got \in SUBSET ids :
               /\ clog' = Append(clog, Consulted("batch", "", asked, cout))
               /\ cout2' = Fill(cout, 1..Len(cout), got)
        ELSE /\ clog' = clog
             /\ cout2' = cout
  /\ cpend' = 1..Len(crows)
  /\ cpc' = "single"
  /\ UNCHANGED <<mode, crows, cout, cqueue>>
  /\ UNCHANGED <<fetchVars, sharedVars, shopVars, enrichVars, searchVars, envVars,
                 tokVars, authVars, pureVars>>

\* the last mode, pass 2: one task (pLimit(1): in the order of the rows) with
\* fetchWatchCountShopping, its attempts taken together
SingleTask ==
  /\ cpc = "single"
  /\ cpend # {}
  /\ LET i == CHOOSE k \in cpend : \A j \in cpend : k <= j
         row == cout2[i]
         legacy == extractLegacyId(row)
     IN /\ cpend' = cpend \ {i}
        /\ IF HasCount(row) \/ legacy = NULL \/ isShoppingBlocked
           THEN UNCHANGED <<cout2, clog, watchCountCache>>
           ELSE \E wc \in {NULL, WatchersOf(row)} :
                  /\ clog' = Append(clog, Consulted("single", "", {i}, cout2))
                  /\ cout2' = IF wc # NULL THEN [cout2 EXCEPT ![i].watchCount = wc]
                              ELSE cout2
                  /\ watchCountCache' = IF wc # NULL
                                        THEN CacheSet(watchCountCache, legacy, wc, NULL)
                                        ELSE watchCountCache
  /\ UNCHANGED <<mode, crows, cout, cpc, cqueue>>
  /\ UNCHANGED <<now, shoppingApiBlockedUntil, clientId, shopLog>>
  /\ UNCHANGED <<fetchVars, shopVars, enrichVars, searchVars, envVars,
                 tokVars, authVars, pureVars>>

\* Promise.all of a pass, or the last seller loop, is over and the call goes on
\* to its next part
PhaseDone ==
  /\ \/ cpc \in {"html", "single", "htmlLast"} /\ cpend = {}
     \/ cpc = "sitePost" /\ cqueue = <<>>
  /\ CASE cpc = "html" ->
            IF Missing(cout) = {}
            THEN cpc' = "returned" /\ UNCHANGED <<cqueue, cpend>>
            ELSE cpc' = "site" /\ cqueue' = missingBySeller(cout) /\ cpend' = cpend
       [] cpc = "single" ->
            cpc' = "sitePost" /\ cqueue' = missingBySeller(cout) /\ cpend' = cpend
       [] cpc = "sitePost" ->
            cpc' = "htmlLast" /\ cpend' = 1..Len(cout2) /\ cqueue' = cqueue
       [] cpc = "htmlLast" ->
            cpc' = "returned" /\ UNCHANGED <<cqueue, cpend>>
  /\ UNCHANGED <<mode, crows, cout, cout2, clog>>
  /\ UNCHANGED <<fetchVars, sharedVars, shopVars, enrichVars, searchVars, envVars,
                 tokVars, authVars, pureVars>>

NextCasc ==
  \/ CascStart
  \/ RowTask
  \/ SiteTask
  \/ BatchPhase
  \/ BatchAll
  \/ SingleTask
  \/ PhaseDone

-----------------------------------------------------------------------------
(* enrichWatchCounts and the objects it is handed (SpecCopy) *)

\* objects the caller holds, and places of the array handed in
MaxObjs == 2
MaxRefs == 2

\* the caller's memory: records at the addresses 1..k, and the array rows as
\* a list of addresses (an object may stand at two places)
CopyInputs ==
  UNION {[heap : [1..k -> RowChoices],
          rows : UNION {[1..n -> 1..k] : n \in 1..MaxRefs}] : k \in 1..MaxObjs}

\* const out = [...rows]: a new array over the same objects
SpreadArray(mem) ==
  [heap |-> mem.heap, rows |-> mem.rows, out |-> mem.rows,
   todo |-> 1..Len(mem.rows), done |-> FALSE]

\* out[index].watchCount = watchCount: a write into the object handed in
AssignInPlace(mem, index, watchCount) ==
  [mem EXCEPT !.heap[mem.out[index]].watchCount = watchCount]

\* out[index] = { ...out[index], watchCount }: a new object takes the place
AssignSpread(mem, index, watchCount) ==
  LET a == Len(mem.heap) + 1
  IN [mem EXCEPT !.heap = Append(mem.heap,
                                 [mem.heap[mem.out[index]] EXCEPT !.watchCount = watchCount]),
                 !.out[index] = a]

InitCopy == arg \in CopyInputs /\ ret = NotCalled

\* enrichWatchCounts(rows) is called and runs to Promise.all
CopyStart ==
  /\ ret = NotCalled
  /\ ret' = SpreadArray(arg)
  /\ UNCHANGED arg
  /\ UNCHANGED <<fetchVars, sharedVars, shopVars, enrichVars, searchVars,
                 envVars, tokVars, authVars, cascVars>>

\* the task of one index ends: nothing to do for a row with a count, else
\* fetchWatchCountForRow gave null or a number
CopyTask ==
  /\ ret # NotCalled
  /\ ~ret.done
  /\ \E index \in ret.todo :
       IF ret.heap[arg.rows[index]].watchCount # NULL
       THEN ret' = [ret EXCEPT !.todo = @ \ {index}]
       ELSE \E watchCount \in {NULL, 0, 7} :
              ret' = IF watchCount # NULL
                     THEN [AssignSpread(ret, index, watchCount)
                             EXCEPT !.todo = @ \ {index}]
                     ELSE [ret EXCEPT !.todo = @ \ {index}]
  /\ UNCHANGED arg
  /\ UNCHANGED <<fetchVars, sharedVars, shopVars, enrichVars, searchVars,
                 envVars, tokVars, authVars, cascVars>>

\* return out
CopyReturn ==
  /\ ret # NotCalled
  /\ ~ret.done
  /\ ret.todo = {}
  /\ ret' = [ret EXCEPT !.done = TRUE]
  /\ UNCHANGED arg
  /\ UNCHANGED <<fetchVars, sharedVars, shopVars, enrichVars, searchVars,
                 envVars, tokVars, authVars, cascVars>>

NextCopy ==
  \/ CopyStart
  \/ CopyTask
  \/ CopyReturn

-----------------------------------------------------------------------------
(* fetchWatchCountFromHTML called on its own (SpecHtml) *)

\* watcher phrases on a page
MaxPhrases == 3

\* what the GET of the listing page brings: a failure, a body that is no
\* string, or a page (a challenge page or not) whose watcher phrases state
\* these numbers, in the order of the text
HtmlInputs ==
  {[kind |-> "throw"], [kind |-> "notText"]} \cup
  {[kind |-> "page", challenge |-> c, phrases |-> p] :
     c \in BOOLEAN, p \in UNION {[1..k -> {0, 7, 12}] : k \in 0..MaxPhrases}}

InitHtml == arg \in HtmlInputs /\ ret = NotCalled

HtmlCall ==
  /\ ret = NotCalled
  /\ ret' = [done |-> TRUE, value |-> fetchWatchCountFromHTML(arg)]
  /\ UNCHANGED arg
  /\ UNCHANGED <<fetchVars, sharedVars, shopVars, enrichVars, searchVars,
                 envVars, tokVars, authVars, cascVars>>

NextHtml == HtmlCall

-----------------------------------------------------------------------------
(* withRetry around doBrowseSearch (SpecRetry) *)

\* the largest options.retries a caller passes
MaxRetryOption == 2

\* options?.retries ?? 5
DefaultRetries == 5

Retries(options) == IF options = NULL THEN DefaultRetries ELSE options

\* what one fetch of the search endpoint ends in: a response with a status, or
\* a rejection (a TypeError, which p-retry may or may not take for a network
\* error, depending on its message and the version of the library)
BrowseResponses ==
  {[kind |-> "http", status |-> s] : s \in {200, 400, 429, 500}} \cup
  {[kind |-> "rejected", network |-> b] : b \in BOOLEAN}

\* doBrowseSearch after its fetch: the value it returns or the error it throws
doBrowseSearch(res) ==
  IF res.kind = "rejected"
  THEN [ok |-> FALSE, name |-> "TypeError", network |-> res.network, status |-> 0]
  ELSE IF res.status = 429 \/ res.status >= 500
  THEN [ok |-> FALSE, name |-> "Error", network |-> FALSE, status |-> res.status]
  ELSE IF ~(res.status >= 200 /\ res.status <= 299)
  THEN [ok |-> FALSE, name |-> "Error", network |-> FALSE, status |-> res.status]
  ELSE [ok |-> TRUE, name |-> "", network |-> FALSE, status |-> res.status]

\* pRetry gives up at once on an AbortError and on a TypeError that is no
\* network error; every other error counts as a failed attempt
AbortsRetry(err) ==
  err.name = "AbortError" \/ (err.name = "TypeError" /\ ~err.network)

InitRetry ==
  /\ arg \in {[retries |-> r] : r \in {NULL} \cup 0..MaxRetryOption}
  /\ ret = NotCalled

\* retryingBrowseSearch(params) is called
RetryCall ==
  /\ ret = NotCalled
  /\ ret' = [done |-> FALSE, end |-> "running", log |-> <<>>]
  /\ UNCHANGED arg
  /\ UNCHANGED <<fetchVars, sharedVars, shopVars, enrichVars, searchVars,
                 envVars, tokVars, authVars, cascVars>>

\* pRetry invokes fn once more and sees how it ends
RetryAttempt ==
  /\ ret # NotCalled
  /\ ret.end = "running"
  /\ \E res \in BrowseResponses :
       LET r == doBrowseSearch(res)
           log == Append(ret.log, r)
       IN ret' = IF r.ok
                 THEN [done |-> TRUE, end |-> "returned", log |-> log]
                 ELSE IF AbortsRetry(r) \/ Len(log) > Retries(arg.retries)
                 THEN [done |-> TRUE, end |-> "threw", log |-> log]
                 ELSE [done |-> FALSE, end |-> "running", log |-> log]
  /\ UNCHANGED arg
  /\ UNCHANGED <<fetchVars, sharedVars, shopVars, enrichVars, searchVars,
                 envVars, tokVars, authVars, cascVars>>

NextRetry ==
  \/ RetryCall
  \/ RetryAttempt

-----------------------------------------------------------------------------
(* The Shopping API functions of src/unnamed/part_001, which fetch an access *)
(* token between the breaker test and the request (SpecShopToken)            *)

\* caller c invokes fetchWatchCountShopping(legacyId): cache, breaker and
\* application ID are looked at, then getAppAccessToken() is awaited
TokenCallSingle(c, legacyId) ==
  /\ shopCalls[c].pc = "idle"
  /\ LET gate == ShoppingGate(legacyId)
     IN IF gate = "dispatch"
        THEN /\ shopCalls' = [shopCalls EXCEPT ![c] =
                                [pc |-> "token",
                                 request |-> [pc |-> "single", id |-> legacyId]]]
             /\ UNCHANGED shopLog
        ELSE /\ shopLog' = LogCall(shopLog, gate = "cached", FALSE)
             /\ UNCHANGED shopCalls
  /\ UNCHANGED <<now, shoppingApiBlockedUntil, watchCountCache, clientId>>
  /\ UNCHANGED <<fetchVars, enrichVars, searchVars, extVars>>

\* caller c invokes fetchWatchCountsShoppingBatch(legacyIds)
TokenCallBatch(c, legacyIds) ==
  /\ shopCalls[c].pc = "idle"
  /\ LET pending == BatchPending(legacyIds)
     IN IF pending # {}
        THEN /\ shopCalls' = [shopCalls EXCEPT ![c] =
                                [pc |-> "token",
                                 request |-> [pc |-> "batch", pending |-> pending,
                                              map |-> CachedMap(legacyIds)]]]
             /\ UNCHANGED shopLog
        ELSE /\ shopLog' = LogCall(shopLog, \A id \in legacyIds : CacheGet(id) # NULL,
                                   FALSE)
             /\ UNCHANGED shopCalls
  /\ UNCHANGED <<now, shoppingApiBlockedUntil, watchCountCache, clientId>>
  /\ UNCHANGED <<fetchVars, enrichVars, searchVars, extVars>>

\* getAppAccessToken() of caller c settles (a token, or a failure that leaves
\* iafToken null) and the request goes out
TokenSettled(c) ==
  /\ shopCalls[c].pc = "token"
  /\ shopCalls' = [shopCalls EXCEPT ![c] = shopCalls[c].request]
  /\ shopLog' = LogCall(shopLog, FALSE, TRUE)
  /\ UNCHANGED <<now, shoppingApiBlockedUntil, watchCountCache, clientId>>
  /\ UNCHANGED <<fetchVars, enrichVars, searchVars, extVars>>

NextShopToken ==
  \/ Tick
  \/ \E c \in Callers, id \in LegacyIds : TokenCallSingle(c, id)
  \/ \E c \in Callers : TokenSettled(c)
  \/ \E c \in Callers : SingleResponse(c)
  \/ \E c \in Callers, ids \in SUBSET LegacyIds : TokenCallBatch(c, ids)
  \/ \E c \in Callers : BatchResponse(c)

-----------------------------------------------------------------------------
(* Specifications *)

\* no call of fetchSellerListings is under way
IdleFetchCall ==
  /\ catalogue = {}
  /\ locationCountry = FALSE
  /\ fpc = "idle"
  /\ acc = <<>>
  /\ dedup = <<>>
  /\ offset = 0
  /\ nextUrl = NoUrl
  /\ attempt = 0
  /\ band = 0
  /\ fresult = <<>>
  /\ budget = [transport |-> 0, http |-> 0]
  /\ flog = <<>>

IdleFetch == maxPerSeller = 0 /\ IdleFetchCall

IdleShared ==
  /\ now = 0
  /\ shoppingApiBlockedUntil = 0
  /\ watchCountCache = <<>>
  /\ clientId = FALSE
  /\ shopLog = <<>>

IdleShop == shopCalls = <<>>

IdleEnrich ==
  /\ rows = <<>>
  /\ out = <<>>
  /\ tasks = <<>>
  /\ eret = "idle"
  /\ elog = <<>>

IdleSearch ==
  /\ sellers = <<>>
  /\ token = "none"
  /\ spc = "idle"
  /\ sidx = 0
  /\ results = <<>>
  /\ sresult = <<>>
  /\ slog = <<>>
  /\ started = <<>>
  /\ tokenEnd = "none"

IdleEnv == credentials = FALSE

IdleToken ==
  /\ cachedToken = <<>>
  /\ tpc = "idle"
  /\ tscope = "none"
  /\ tattempt = 0
  /\ tresult = "none"
  /\ tlog = <<>>

IdleAuth ==
  /\ tokenCache = <<>>
  /\ apc = "idle"
  /\ ai = 0
  /\ aj = -1
  /\ aresult = "none"
  /\ alog = <<>>

IdlePure == arg = <<>> /\ ret = <<>>

IdleCasc ==
  /\ mode = "none"
  /\ crows = <<>>
  /\ cout = <<>>
  /\ cout2 = <<>>
  /\ cpc = "idle"
  /\ cpend = {}
  /\ cqueue = <<>>
  /\ clog = <<>>

IdleExt == IdleEnv /\ IdleToken /\ IdleAuth /\ IdlePure /\ IdleCasc

InitSpecFetch == InitFetch /\ IdleShared /\ IdleShop /\ IdleEnrich /\ IdleSearch /\ IdleExt

SpecFetch == InitSpecFetch /\ [][NextFetch]_vars

\* sizes of the calls followed to their end
MaxFairPerSeller == 2
NumFairItems == 2

\* a call of fetchSellerListings for a seller with few listings, the network
\* failing for one whole searchOnce at most
InitFetchFair ==
  InitFetchCall(MaxFairPerSeller, NumFairItems, MaxTransportFailures \div 2)

InitSpecFetchFair ==
  InitFetchFair /\ IdleShared /\ IdleShop /\ IdleEnrich /\ IdleSearch /\ IdleExt

\* fetchSellerListings when every network call it makes is answered or fails
\* in finite time
SpecFetchFair == InitSpecFetchFair /\ [][NextFetch]_vars /\ WF_vars(NextFetch)

InitSpecShop == InitShared /\ InitShop /\ IdleFetch /\ IdleEnrich /\ IdleSearch /\ IdleExt

SpecShop == InitSpecShop /\ [][NextShop]_vars

InitSpecEnrich == InitShared /\ InitEnrich /\ IdleFetch /\ IdleShop /\ IdleSearch /\ IdleExt

SpecEnrich == InitSpecEnrich /\ [][NextEnrich]_vars

\* the call under a fair schedule: timers fire, every request ends (each has a
\* timeout), and the event loop runs a continuation that is ready
SpecEnrichFair == InitSpecEnrich /\ [][EnrichStep]_vars /\ WF_vars(EnrichStep)

InitSpecToken ==
  InitToken /\ IdleFetch /\ IdleShared /\ IdleShop /\ IdleEnrich /\ IdleSearch
    /\ IdleAuth /\ IdlePure /\ IdleCasc

SpecToken == InitSpecToken /\ [][NextToken]_vars

InitSpecAuth ==
  InitAuth /\ IdleFetch /\ IdleShared /\ IdleShop /\ IdleEnrich /\ IdleSearch
    /\ IdleToken /\ IdlePure /\ IdleCasc

SpecAuth == InitSpecAuth /\ [][NextAuth]_vars

IdleRest ==
  IdleFetch /\ IdleShared /\ IdleShop /\ IdleEnrich /\ IdleSearch /\ IdleEnv
    /\ IdleToken /\ IdleAuth /\ IdleCasc

InitSpecSort == InitSort /\ IdleRest

SpecSort == InitSpecSort /\ [][NextSort]_vars

InitSpecCache ==
  InitCache /\ IdleFetch /\ IdleShop /\ IdleEnrich /\ IdleSearch /\ IdleEnv
    /\ IdleToken /\ IdleAuth /\ IdleCasc

SpecCache == InitSpecCache /\ [][NextCache]_vars

InitSpecLegacyId == InitLegacyId /\ IdleRest

SpecLegacyId == InitSpecLegacyId /\ [][NextLegacyId]_vars

InitSpecNormalize == InitNormalize /\ IdleRest

SpecNormalize == InitSpecNormalize /\ [][NextNormalize]_vars

InitSpecWeb == InitWeb /\ IdleRest

SpecWeb == InitSpecWeb /\ [][NextWeb]_vars

InitSpecCascade ==
  InitCasc /\ InitCascShared /\ IdleFetch /\ IdleShop /\ IdleEnrich /\ IdleSearch
    /\ IdleEnv /\ IdleToken /\ IdleAuth /\ IdlePure

SpecCascade == InitSpecCascade /\ [][NextCasc]_vars

InitSpecSearch == InitSearch /\ IdleFetchCall /\ IdleShared /\ IdleShop /\ IdleEnrich /\ IdleExt

SpecSearch == InitSpecSearch /\ [][NextSearch]_vars

InitSpecShopToken == InitShared /\ InitShop /\ IdleFetch /\ IdleEnrich /\ IdleSearch /\ IdleExt

SpecShopToken == InitSpecShopToken /\ [][NextShopToken]_vars

InitSpecRetry == InitRetry /\ IdleRest

SpecRetry == InitSpecRetry /\ [][NextRetry]_vars

InitSpecHtml == InitHtml /\ IdleRest

SpecHtml == InitSpecHtml /\ [][NextHtml]_vars

InitSpecCopy == InitCopy /\ IdleRest

SpecCopy == InitSpecCopy /\ [][NextCopy]_vars

-----------------------------------------------------------------------------
(* Properties of fetchSellerListings (SpecFetch) *)

\* deduplication key of a record: its itemId when present, else the legacy ID
\* of its URL
DedupKey(it) == IF HasItemId(it.id) THEN <<"itemId", it.id>> ELSE <<"legacyId", it.id>>

\* the listings the location-filtered band queries can return
BandVisible == {i \in catalogue : Matches(i, Query(TRUE, 0))}

\* C6: fetchSellerListings returns at most maxPerSeller items on every path
\* and for every sequence of server responses.
C6_AtMostMaxPerSeller ==
  fpc = "returned" => Len(fresult) <= maxPerSeller

\* C7: the returned list never holds two records with the same deduplication
\* key.
C7_NoDuplicateKeys ==
  fpc = "returned" =>
    \A i, j \in 1..Len(fresult) :
      i # j => DedupKey(fresult[i]) # DedupKey(fresult[j])

\* C8: a call in which a page request of tryLinear was answered with HTTP 400
\* / errorId 12023 does not return without the price-band strategy having run.
C8_TooLargeRunsBands ==
  (fpc = "returned" /\ flog.tooLargeLinear) => flog.bandsRan

\* C9: when tryPriceBands ran without a fault and maxPerSeller >= |S|, the IDs
\* it returned are exactly S.
C9_BandsExhaustive ==
  (flog.bandedDone /\ ~flog.bandFault /\ maxPerSeller >= Cardinality(BandVisible))
    => {flog.banded[k].id : k \in 1..Len(flog.banded)} = BandVisible

\* C10: when the location-filtered pass returned fewer than maxPerSeller items,
\* exactly one unfiltered pass is made; the shortfall call of the web resolver
\* comes first among the resolver calls, after that pass has ended, only with
\* the merged count below maxPerSeller, and asks for 2 x (maxPerSeller - merged
\* count) IDs; no resolver call is made before the pass began or with a full
\* merged map.
C10_ShortfallOrdering ==
  /\ flog.unfPasses <= 1
  /\ (flog.firstDone /\ Len(flog.first) < maxPerSeller) => flog.unfPasses = 1
  /\ flog.firstDone =>
       \A k \in 1..Len(flog.webCalls) :
         LET c == flog.webCalls[k]
         IN /\ c.unfPasses = 1
            /\ c.merged < maxPerSeller
            /\ c.site \in {"shortfall", "zero"} => c.unfEnded
            /\ c.site = "shortfall" =>
                 k = 1 /\ c.desired = 2 * (maxPerSeller - c.merged)
  /\ fpc = "webShortfall" =>
       /\ flog.unfEnded
       /\ flog.webCalls[Len(flog.webCalls)].site = "shortfall"

\* a shortfall call was made with some items already merged, and answered
C10_Witness ==
  /\ fpc = "returned"
  /\ Len(flog.webCalls) = 1
  /\ flog.webCalls[1].site = "shortfall"
  /\ flog.webCalls[1].merged > 0
  /\ flog.webCalls[1].desired = 4
  /\ Len(fresult) > flog.webCalls[1].merged

-----------------------------------------------------------------------------
(* Properties of the Shopping API circuit breaker (SpecShop) *)

\* C4: after a Shopping API response carrying "IP limit exceeded" was read at
\* time t, no GetSingleItem or GetMultipleItems request is dispatched at any
\* time in [t, t + 30 minutes).
C4_NoDispatchDuringCooldown ==
  (shopLog.call.made /\ shopLog.call.dispatched /\ shopLog.call.trip >= 0)
    => shopLog.call.t >= shopLog.call.trip + SHOPPING_COOLDOWN_MS

\* a lookup of an uncached ID made inside the cooldown window was turned down
C4_Witness ==
  /\ clientId
  /\ shopLog.call.made
  /\ ~shopLog.call.cached
  /\ shopLog.call.trip >= 0
  /\ shopLog.call.t > shopLog.call.trip
  /\ shopLog.call.t < shopLog.call.trip + SHOPPING_COOLDOWN_MS
  /\ ~shopLog.call.dispatched

\* C5: a Shopping API lookup of an uncached legacy ID made once the 30-minute
\* cooldown has elapsed, with an application ID configured, dispatches a
\* request; nothing but the passage of time reopens the breaker.
C5_DispatchAfterCooldown ==
  (/\ shopLog.call.made
   /\ ~shopLog.call.cached
   /\ clientId
   /\ shopLog.call.trip >= 0
   /\ shopLog.call.t >= shopLog.call.trip + SHOPPING_COOLDOWN_MS)
    => shopLog.call.dispatched

\* a request went out at the very end of the cooldown, the deadline untouched
\* since the trip
C5_Witness ==
  /\ shopLog.call.made
  /\ shopLog.call.dispatched
  /\ shopLog.call.trip >= 0
  /\ shopLog.call.t = shopLog.call.trip + SHOPPING_COOLDOWN_MS
  /\ shoppingApiBlockedUntil = shopLog.call.trip + SHOPPING_COOLDOWN_MS
  /\ now = shopLog.call.t

-----------------------------------------------------------------------------
(* Properties of enrichWatchCounts (SpecEnrich) *)

\* the record a equals the record b in every field but watchCount
SameButWatchCount(a, b) ==
  [a EXCEPT !.watchCount = NULL] = [b EXCEPT !.watchCount = NULL]

\* C2: the array enrichWatchCounts returns has the length of rows, and at
\* every index the record of rows with at most its watchCount changed,
\* whatever the order the lookups complete in.
C2_SameLengthSameOrder ==
  eret = "returned" =>
    /\ Len(out) = Len(rows)
    /\ \A i \in 1..Len(rows) : SameButWatchCount(out[i], rows[i])

\* a lookup found its count before one of a lower index had completed, and
\* the counts of two different records sit at their own indexes
C2_Witness ==
  /\ eret = "returned"
  /\ Len(rows) = 3
  /\ elog.overtook
  /\ \E i, j \in 1..3 :
       /\ i < j
       /\ rows[i].title # rows[j].title
       /\ rows[i].watchCount = NULL /\ out[i].watchCount # NULL
       /\ rows[j].watchCount = NULL /\ out[j].watchCount # NULL

\* C3: enrichWatchCounts never raises: whatever the sources answer, the call
\* keeps running until it returns, and a record no source answered for keeps
\* its null watchCount.
C3_NeverRaisesKeepsNull ==
  /\ eret \in {"running", "returned"}
  /\ eret = "running" => ENABLED EnrichStep
  /\ eret = "returned" =>
       \A i \in 1..Len(rows) :
         (rows[i].watchCount = NULL /\ ~elog.sourced[i]) => out[i].watchCount = NULL

\* the call returned with a record no source answered for next to one a
\* source answered for, after the breaker tripped
C3_Witness ==
  /\ eret = "returned"
  /\ shopLog.lastTrip >= 0
  /\ \E i, j \in 1..Len(rows) :
       /\ extractLegacyId(rows[i]) # NULL
       /\ rows[i].watchCount = NULL /\ ~elog.sourced[i] /\ out[i].watchCount = NULL
       /\ elog.sourced[j] /\ out[j].watchCount # NULL

-----------------------------------------------------------------------------
(* Properties of searchBySellersAxios (SpecSearch) *)

\* rws with every watchCount blanked
Blank(rws) == [k \in 1..Len(rws) |-> [rws[k] EXCEPT !.watchCount = NULL]]

\* number of occurrences of r in the sequence q
Count(r, q) == Cardinality({k \in 1..Len(q) : q[k] = r})

SameBag(p, q) == \A r \in Range(p) \cup Range(q) : Count(r, p) = Count(r, q)

RECURSIVE Retrieved(_)
\* the items of the retrievals that did not throw, in the order of the log
Retrieved(log) ==
  IF log = <<>> THEN <<>>
  ELSE Retrieved(SubSeq(log, 1, Len(log) - 1))
         \o (IF log[Len(log)].threw THEN <<>> ELSE log[Len(log)].items)

\* C1: when fetchSellerListings throws for some sellers, searchBySellersAxios
\* still returns, and what it returns holds, watchCount aside, exactly the
\* records retrieved for the sellers whose retrieval did not throw.
C1_SellerIsolation ==
  /\ spc # "threw"
  /\ (spc = "returned" /\ token # "mock_token") =>
       /\ Len(slog) = Len(sellers)
       /\ SameBag(Blank(sresult), Blank(normalize(Retrieved(slog))))

\* the retrieval of the first seller threw with items in hand, that of the
\* second, another seller, returned items, and the call returned
C1_Witness ==
  /\ spc = "returned"
  /\ token = "token"
  /\ Len(slog) = 2
  /\ slog[1].threw /\ Len(slog[1].items) > 0
  /\ ~slog[2].threw /\ Len(slog[2].items) = 2
  /\ slog[1].seller # slog[2].seller
  /\ Len(sresult) = 2

-----------------------------------------------------------------------------
(* Properties of the token step of searchBySellersAxios (SpecSearch) *)

\* a record made by generateMockData (its titles lie above those of the
\* listings the server holds)
IsMockRecord(r) == r.title > 10

\* C11: the search never returns generated (mock) records: when the
\* credentials are not set, or the token requests of both scopes failed,
\* searchBySellersAxios does not return a result, it fails to its caller
C11_NoMockRecords ==
  spc = "returned" =>
    /\ tokenEnd = "token"
    /\ \A k \in 1..Len(sresult) : ~IsMockRecord(sresult[k])

-----------------------------------------------------------------------------
(* Properties of getAppAccessToken (SpecAuth) *)

\* C12: a call made while the token issued last remains valid for more than
\* 60 s returns that token and makes no token request; any other call (the
\* credentials being set) makes a token request, and one that succeeds leaves
\* the new token in tokenCache under the key of the environment, and only there
C12_CachedTokenServed ==
  alog.called =>
    /\ alog.validAtCall =>
         /\ apc = "returned"
         /\ alog.narrow = 0 /\ alog.base = 0
         /\ aresult = alog.issued.accessToken
    /\ (~alog.validAtCall /\ credentials) => alog.narrow >= 1
    /\ (apc = "returned" /\ alog.narrow >= 1) =>
         /\ ~tokenCache[cacheKey].absent
         /\ tokenCache[cacheKey].value = alog.issued
         /\ aresult = alog.issued.accessToken
         /\ \A k \in TokenCacheKeys \ {cacheKey} : tokenCache[k].absent

\* a call served from the cache some time after the token was issued
C12_Witness ==
  /\ alog.called /\ alog.validAtCall /\ apc = "returned"
  /\ alog.narrow = 0
  /\ alog.issued.accessToken # NULL
  /\ now > alog.issued.accessToken

\* C13: in one call the token request of a scope is made at most 3 times, a
\* request is repeated only after a 5xx or 429 response or a transport
\* failure, never after another 4xx response, and at most 6 token requests
\* are made in all
C13_AtMostThreeAttempts ==
  /\ alog.narrow <= 3
  /\ alog.base <= 3
  /\ ~alog.after4xx
  /\ alog.narrow + alog.base <= 6

-----------------------------------------------------------------------------
(* Properties of getAppToken (SpecToken) *)

\* C20: the fallback scope is requested only after the request of the narrow
\* scope was rejected with invalid_scope, and then in one run of attempts; no
\* other failure of the narrow-scope request leads to a fallback-scope request
C20_FallbackOnlyAfterInvalidScope ==
  \A k \in 1..Len(tlog) :
    (tlog[k].scope = BASE_SCOPE /\ k > 1 /\ tlog[k - 1].scope = BROWSE_SCOPE)
      => tlog[k - 1].class = "invalid_scope"

-----------------------------------------------------------------------------
(* Properties of sortForDisplay (SpecSort) *)

HasWatch(rws) == \E k \in 1..Len(rws) : rws[k].watchCount # NULL

IsPermutation(p, q) ==
  /\ Len(p) = Len(q)
  /\ \A k \in 1..Len(p) : \E m \in 1..Len(q) : q[m] = p[k]
  /\ \A k, m \in 1..Len(q) : q[k] = q[m] => k = m

\* C14: with a numeric watchCount in the input, the result is a permutation of
\* the input in which a record with a watchCount never follows one without,
\* the watchCounts present do not increase, and records of equal watchCount
\* (or both without) stand in their input order
C14_WatchCountOrder ==
  (ret.done /\ HasWatch(arg)) =>
    /\ IsPermutation(arg, ret.value)
    /\ \A i, j \in 1..Len(ret.value) :
         i < j =>
           LET a == ret.value[i]
               b == ret.value[j]
           IN /\ ~(a.watchCount = NULL /\ b.watchCount # NULL)
              /\ (a.watchCount # NULL /\ b.watchCount # NULL)
                   => a.watchCount >= b.watchCount
              /\ a.watchCount = b.watchCount => a.title < b.title

\* a sorted input in which a record without watchCount stood before one with
\* watchCount 0, and two records had the same watchCount
C14_Witness ==
  /\ ret.done /\ HasWatch(arg)
  /\ \E i, j \in 1..Len(arg) :
       i < j /\ arg[i].watchCount = NULL /\ arg[j].watchCount = 0
  /\ \E i, j \in 1..Len(arg) :
       i < j /\ arg[i].watchCount = arg[j].watchCount
  /\ ret.value # arg

\* C15: with no numeric watchCount in the input, the result is a permutation
\* of the input with the timestamps not increasing (an absent one being the
\* lowest), records of equal timestamp in the order of their prices, absent
\* prices last, and records equal in both in their input order
C15_DateThenPriceOrder ==
  (ret.done /\ ~HasWatch(arg)) =>
    /\ IsPermutation(arg, ret.value)
    /\ \A i, j \in 1..Len(ret.value) :
         i < j =>
           LET a == ret.value[i]
               b == ret.value[j]
               sameDate == a.itemCreationDate = b.itemCreationDate
           IN /\ ~(a.itemCreationDate = NULL /\ b.itemCreationDate # NULL)
              /\ (a.itemCreationDate # NULL /\ b.itemCreationDate # NULL)
                   => a.itemCreationDate >= b.itemCreationDate
              /\ sameDate => ~(a.priceValue = NULL /\ b.priceValue # NULL)
              /\ (sameDate /\ a.priceValue # NULL /\ b.priceValue # NULL)
                   => a.priceValue <= b.priceValue
              /\ (sameDate /\ a.priceValue = b.priceValue) => a.title < b.title

\* a sorted input without watchCounts in which equal timestamps met with a
\* price absent before a price present, and two records were fully tied
C15_Witness ==
  /\ ret.done /\ ~HasWatch(arg)
  /\ \E i, j \in 1..Len(arg) :
       /\ i < j
       /\ arg[i].itemCreationDate = arg[j].itemCreationDate
       /\ arg[i].priceValue = NULL /\ arg[j].priceValue # NULL
  /\ \E i, j \in 1..Len(arg) :
       /\ i < j
       /\ arg[i].itemCreationDate = arg[j].itemCreationDate
       /\ arg[i].priceValue = arg[j].priceValue
  /\ ret.value # arg

-----------------------------------------------------------------------------
(* Properties of createCache (SpecCache) *)

\* C16: after set(k, v, ttl) at time t, with no later set or delete of k, a
\* get(k) made before t + ttl returns v and a get(k) made after t + ttl
\* returns undefined
C16_TtlExpiry ==
  (ret.done /\ arg[ret.key].set /\ arg[ret.key].ttl # NULL) =>
    LET s == arg[ret.key]
    IN /\ now < s.t + s.ttl => ret.value = s.value
       /\ now > s.t + s.ttl => ret.value = NULL

\* a get that found the entry of a key expired while the entry of the other
\* key, set with a longer ttl, was still within its time
C16_Witness ==
  /\ ret.done /\ arg[ret.key].set /\ arg[ret.key].ttl # NULL
  /\ now > arg[ret.key].t + arg[ret.key].ttl
  /\ ret.value = NULL
  /\ \E id \in LegacyIds \ {ret.key} :
       /\ arg[id].set /\ arg[id].ttl # NULL
       /\ now < arg[id].t + arg[id].ttl
       /\ CacheGet(id) = arg[id].value

-----------------------------------------------------------------------------
(* Properties of extractLegacyId (SpecLegacyId) *)

\* C17: the ID is taken from the itemId first, then from the path /itm/<id>
\* of the URL, then from its query item=<id>, IDs of fewer than six digits
\* not counting; so with an ID in the itemId and a different one in the URL
\* the itemId's is returned; with no match the result is null
C17_ItemIdFirst ==
  ret.done =>
    ret.value = IF SixDigits(arg.itemId) THEN arg.itemId
                ELSE IF arg.url # NULL /\ arg.url >= 100000 THEN arg.url
                ELSE IF arg.url # NULL /\ -arg.url >= 100000 THEN -arg.url
                ELSE NULL

-----------------------------------------------------------------------------
(* Properties of normalize (SpecNormalize) *)

\* C18: normalize is idempotent: applied to the records it made it yields
\* those records again
C18_NormalizeIdempotent == ret.done => ret.twice = ret.value

-----------------------------------------------------------------------------
(* Properties of searchWebForLegacyIds (SpecWeb) *)

\* C19: the call never throws; when the page fetch failed it returns the
\* empty list, and otherwise at most `desired` IDs, none of them twice
C19_NeverRaisesBoundedDistinct ==
  ret.done =>
    /\ ~ret.threw
    /\ arg.reply.threw => ret.value = <<>>
    /\ Len(ret.value) <= arg.desired
    /\ \A i, j \in 1..Len(ret.value) : ret.value[i] = ret.value[j] => i = j

\* a page that repeats an ID in both patterns and holds more IDs than desired
C19_Witness ==
  /\ ret.done /\ ~arg.reply.threw
  /\ \E i \in 1..Len(arg.reply.path), j \in 1..Len(arg.reply.query) :
       arg.reply.path[i] = arg.reply.query[j]
  /\ Cardinality(Range(arg.reply.path) \cup Range(arg.reply.query)) > arg.desired
  /\ Len(ret.value) = arg.desired
  /\ arg.desired > 1

-----------------------------------------------------------------------------
(* Further properties of fetchSellerListings (SpecFetch) *)

\* C21: searchOnce makes at most 3 attempts of a page request, and a call
\* whose linear paging received a response with an HTTP error other than the
\* too-large signal does not return without the escalation (the price bands)
\* having run
C21_HttpErrorEscalates ==
  /\ attempt < 3
  /\ (fpc = "returned" /\ flog.httpErr) => flog.bandsRan

\* C22: a page request of tryLinear goes to the continuation URL of the page
\* before when there was one, and else asks at the offset of the count
\* gathered so far; tryLinear makes a further request unless the page held no
\* item and no continuation URL or the count has reached maxPerSeller, and
\* stops in these two cases
C22_LinearPagingStops ==
  flog.lin.made =>
    LET l == flog.lin
    IN /\ l.prevNext # NoUrl =>
            l.req = [q |-> l.prevNext.q, off |-> l.prevNext.off, lim |-> l.prevNext.lim]
       /\ l.prevNext = NoUrl =>
            /\ l.req.off = l.prevCount
            /\ l.req.q = Query(TRUE, 0)
       /\ l.continued <=> ~((l.items = 0 /\ l.next = NoUrl) \/ l.count >= maxPerSeller)

\* tryLinear has followed a continuation URL and then stopped on an empty
\* page without one, short of maxPerSeller
C22_Witness ==
  /\ flog.lin.made
  /\ flog.lin.prevNext # NoUrl
  /\ ~flog.lin.continued
  /\ flog.lin.items = 0
  /\ flog.lin.count > 0 /\ flog.lin.count < maxPerSeller

\* C23: in tryPriceBands a band whose query was answered with the too-large
\* signal is left at once and not queried again, the bands are queried in
\* their fixed order up to the last one unless maxPerSeller is reached, and no
\* row pushed from a band that gave the signal is in the list tryPriceBands
\* returns
C23_TooLargeBandForfeited ==
  /\ (fpc = "tryPriceBands" /\ flog.tooLargeNow) =>
       /\ band = Len(flog.bandSeq) + 1
       /\ offset = 0 /\ nextUrl = NoUrl
  /\ \A k \in 1..Len(flog.bandSeq) : flog.bandSeq[k] = k
  /\ flog.bandedDone =>
       /\ Len(flog.bandSeq) = Len(bands) \/ Len(flog.banded) >= maxPerSeller
       /\ ~flog.tooLargeKept

\* the web calls of the zero-result case made so far
ZeroCalls == SelectSeq(flog.webCalls, LAMBDA c : c.site = "zero")

\* C24: a call whose merged list is still empty after the linear pass, the
\* unfiltered pass and the shortfall completion makes exactly one more web
\* call, asks it for maxPerSeller rows, and returns what that call gave
\* (nothing when it found nothing); no such call is made otherwise
C24_ZeroResultLastResort ==
  /\ Len(ZeroCalls) <= 1
  /\ Len(ZeroCalls) = 1 =>
       /\ Len(flog.webCalls) = 2
       /\ flog.webCalls[1].site = "shortfall"
       /\ ZeroCalls[1].merged = 0 /\ Len(dedup) = 0
       /\ ZeroCalls[1].desired = maxPerSeller
       /\ fpc \in {"webZero", "returned"}
       /\ fpc = "returned" => fresult = flog.lastWeb /\ Len(fresult) <= maxPerSeller
  /\ (fpc = "returned" /\ flog.firstDone /\ ~flog.bandsRan /\ Len(dedup) = 0
        /\ Len(flog.first) < maxPerSeller) => Len(ZeroCalls) = 1

\* the passes over the API and the shortfall completion gave nothing, and the
\* last-resort call found a listing, which is returned
C24_Witness ==
  /\ fpc = "returned"
  /\ Len(ZeroCalls) = 1
  /\ fresult # <<>>

-----------------------------------------------------------------------------
(* Further properties of searchBySellersAxios (SpecSearch) *)

\* C25: the retrievals are started in the order of the request and one at a
\* time, each after the one before has ended; enrichment begins only when the
\* retrieval of the last seller has ended, and the sorted list exists only
\* once enrichment has ended
C25_SequentialPhases ==
  /\ Len(started) <= Len(sellers)
  /\ \A k \in 1..Len(started) : started[k] = sellers[k]
  /\ \A k \in 1..Len(slog) : slog[k].seller = started[k]
  /\ Len(started) - Len(slog) = (IF spc = "awaitSeller" THEN 1 ELSE 0)
  /\ (spc \in {"enrichWatchCounts", "returned"} /\ token # "mock_token") =>
       /\ Len(started) = Len(sellers)
       /\ Len(slog) = Len(sellers)
  /\ spc # "returned" => sresult = <<>>

\* both sellers were retrieved, the second after the first, and rows were
\* enriched and sorted
C25_Witness ==
  /\ spc = "returned"
  /\ token # "mock_token"
  /\ Len(slog) = 2
  /\ started = sellers
  /\ Len(sresult) >= 2

-----------------------------------------------------------------------------
(* Further properties of enrichWatchCounts and fetchWatchCountForRow
   (SpecEnrich) *)

\* C27: no lookup sends a network request after it found a live cache entry
\* for the record's legacy ID, and no lookup sends a Shopping request after
\* its listing page gave a number
C27_SuccessShortCircuits ==
  /\ ~elog.netAfterHit
  /\ ~elog.shopAfterHtmlNum

\* the call returned after one lookup ended on a cache hit and another on the
\* number of its listing page: the cache was empty at the start and without
\* EBAY_CLIENT_ID the Shopping call gives no number, so the entry that was hit
\* had been written by a lookup whose listing page gave the number
C27_Witness ==
  /\ eret = "returned"
  /\ elog.hit
  /\ ~clientId

\* C28: the count a lookup obtained is in the cache under the record's legacy
\* ID, and an entry of the cache can be retrieved until WATCH_TTL_MS (6 hours)
\* have passed since it was written
C28_CachedForSixHours ==
  /\ \A i \in 1..Len(rows) :
       (tasks[i] = "done" /\ rows[i].watchCount = NULL /\ out[i].watchCount # NULL)
         => watchCountCache[extractLegacyId(rows[i])] # NoEntry
  /\ \A id \in LegacyIds :
       LET e == watchCountCache[id]
       IN (e # NoEntry /\ now - e.start <= WATCH_TTL_MS) => CacheGet(id) # NULL

\* a lookup that pLimit let in and that has not ended
InProgress == {i \in 1..Len(tasks) : tasks[i] \notin {"queued", "done"}}

\* C29: at most 2 lookups of the call are in progress at any time, their
\* delays included, and every lookup that waits is started in the end
C29_TwoAtATimeAllStarted ==
  /\ [](Cardinality(InProgress) <= 2)
  /\ \A i \in 1..MaxRows :
       (i \in DOMAIN tasks /\ tasks[i] = "queued")
         ~> (i \in DOMAIN tasks /\ tasks[i] # "queued")

\* three records lack a count; the third lookup waited for a slot and is now
\* in progress next to one of the first two
C29_Witness ==
  /\ Len(rows) = 3
  /\ \A i \in 1..3 : rows[i].watchCount = NULL
  /\ 3 \in InProgress
  /\ Cardinality(InProgress) = 2

-----------------------------------------------------------------------------
(* Properties of enrichWatchCounts with its modes (SpecCascade) *)

\* place of a source in the order HTML, Shopping batch, aggregation site; the
\* single-item call belongs to the per-row lookup
SourceRank(src) ==
  CASE src \in {"html", "single"} -> 1
    [] src = "batch" -> 2
    [] src = "site" -> 3

\* C26: under html_first the sources are consulted in the order listing
\* page, Shopping batch, aggregation site, and a source is consulted only for
\* rows that had no watchCount at that moment
C26_HtmlFirstSourceOrder ==
  mode = "html_first" =>
    /\ \A i, j \in 1..Len(clog) :
         i < j => SourceRank(clog[i].src) <= SourceRank(clog[j].src)
    /\ \A k \in 1..Len(clog) : clog[k].had = {}

\* C30: within one call the aggregation site is requested at most once for a
\* seller, and only for a seller that has a row handed in without watchCount
C30_SiteOncePerSeller ==
  /\ \A i, j \in 1..Len(clog) :
       (i # j /\ clog[i].src = "site" /\ clog[j].src = "site")
         => clog[i].seller # clog[j].seller
  /\ \A k \in 1..Len(clog) :
       clog[k].src = "site" =>
         \E i \in 1..Len(crows) :
           crows[i].seller = clog[k].seller /\ ~HasCount(crows[i])

\* the array the call returns: out under html_first, out2 in the last mode
CascReturned == IF mode = "html_first" THEN cout ELSE cout2

\* a row enrichment has nothing to do for: its count is known, or no legacy
\* ID can be derived from it
Ineligible(r) == HasCount(r) \/ extractLegacyId(r) = NULL

\* C31: a row whose watchCount is already a number, or from which no legacy
\* ID can be derived, is returned as it was handed in, and no source is
\* consulted for it
C31_IneligibleUntouched ==
  \A i \in 1..Len(crows) :
    Ineligible(crows[i]) =>
      /\ cpc = "returned" => CascReturned[i] = crows[i]
      /\ \A k \in 1..Len(clog) : i \notin clog[k].rows

\* C33: when the call returns, every index for which a source gave a watch
\* count during the call (the count was written to out or to out2) carries
\* a watch count in the array returned
C33_FoundValueReturned ==
  cpc = "returned" =>
    \A i \in 1..Len(crows) :
      (\E o \in {cout, cout2} : i \in DOMAIN o /\ HasCount(o[i]))
        => HasCount(CascReturned[i])

-----------------------------------------------------------------------------
(* Properties of enrichWatchCounts's use of memory (SpecCopy) *)

\* C32: enrichWatchCounts leaves the array it is handed and every object in
\* it as they were, and a place of the output whose record was enriched
\* holds an object that did not exist before the call
C32_InputNotMutated ==
  ret # NotCalled =>
    /\ ret.rows = arg.rows
    /\ \A a \in DOMAIN arg.heap : ret.heap[a] = arg.heap[a]
    /\ \A i \in 1..Len(ret.out) :
         \/ ret.out[i] = arg.rows[i]
         \/ ret.out[i] \notin DOMAIN arg.heap

\* the call returned after enriching a record that stands at two places of
\* the input
C32_Witness ==
  /\ ret # NotCalled
  /\ ret.done
  /\ Len(arg.rows) = 2
  /\ arg.rows[1] = arg.rows[2]
  /\ ret.out[1] # arg.rows[1]
  /\ ret.heap[ret.out[1]].watchCount = 7

-----------------------------------------------------------------------------
(* Properties of the cooldown deadline (SpecShop) *)

\* a request of one of the callers is answered in this step
ShopAnswered ==
  \E c \in Callers : shopCalls[c].pc \in {"single", "batch"} /\ shopCalls'[c].pc = "idle"

\* C34: shoppingApiBlockedUntil changes only in a step in which a Shopping
\* response carrying the IP-limit text is seen; every such step sets it to the
\* current time plus 30 minutes; it never decreases
C34_DeadlineOnlyOnIpLimit ==
  [][/\ shoppingApiBlockedUntil' # shoppingApiBlockedUntil
          => ShopAnswered /\ shopLog'.lastTrip = now
     /\ shopLog'.lastTrip # shopLog.lastTrip
          => shoppingApiBlockedUntil' = now + SHOPPING_COOLDOWN_MS
     /\ shoppingApiBlockedUntil' >= shoppingApiBlockedUntil]_vars

\* the breaker was opened a second time, at a later instant than the first,
\* while a request is in flight
C34_Witness ==
  /\ shopLog.lastTrip = 2 * TickMs
  /\ shoppingApiBlockedUntil = 2 * TickMs + SHOPPING_COOLDOWN_MS
  /\ \E c \in Callers : shopCalls[c].pc = "single"

-----------------------------------------------------------------------------
(* Properties of fetchWatchCountFromHTML (SpecHtml) *)

\* C35: on a page that is no challenge page fetchWatchCountFromHTML returns
\* the number of the first watcher phrase (the number N of a page with the one
\* phrase "N ..."), and null when there is none; a challenge page, like a
\* failed request, gives null
C35_FirstPhraseWins ==
  ret # NotCalled =>
    ret.value = IF arg.kind = "page" /\ ~arg.challenge /\ arg.phrases # <<>>
                THEN arg.phrases[1]
                ELSE NULL

-----------------------------------------------------------------------------
(* Properties of withRetry (SpecRetry) *)

\* C36: the wrapped function is invoked at most retries + 1 times; the first
\* success ends the call with its value; the call throws only after an
\* attempt that failed; and an attempt of the Browse search is followed by
\* another only when it failed with 429, with 5xx or in transport
C36_BoundedRetryOfTemporaryErrors ==
  ret # NotCalled =>
    /\ Len(ret.log) <= Retries(arg.retries) + 1
    /\ \A k \in 1..Len(ret.log) :
         ret.log[k].ok => k = Len(ret.log) /\ ret.end = "returned"
    /\ ret.end = "returned" => ret.log[Len(ret.log)].ok
    /\ ret.end = "threw" => ~ret.log[Len(ret.log)].ok
    /\ \A k \in 1..(Len(ret.log) - 1) :
         \/ ret.log[k].name = "TypeError"
         \/ ret.log[k].status = 429
         \/ ret.log[k].status >= 500

-----------------------------------------------------------------------------
(* Properties of the Shopping API functions that await a token (SpecShopToken) *)

\* C37: with the token awaited between the breaker test and the request, no
\* interleaving of concurrent lookups lets a request go out while the breaker
\* is open: a request sent at time t after an IP-limit response was read at
\* time u has t >= u + 30 minutes
C37_NoDispatchAfterTripAcrossAwait ==
  (shopLog.call.made /\ shopLog.call.dispatched)
    => \/ shopLog.call.trip < 0
       \/ shopLog.call.t >= shopLog.call.trip + SHOPPING_COOLDOWN_MS

-----------------------------------------------------------------------------
(* Properties of the shortfall merge of fetchSellerListings (SpecFetch) *)

\* C39: when the location-filtered pass came back with fewer than
\* maxPerSeller items and the call returned without entering its catch block,
\* every item of that pass, one without itemId included, is in the list
\* returned
C39_ShortfallMergeKeepsFirst ==
  (/\ fpc = "returned"
   /\ flog.firstDone
   /\ ~flog.bandsRan
   /\ Len(flog.first) < maxPerSeller)
    => \A k \in 1..Len(flog.first) :
         \E j \in 1..Len(fresult) : fresult[j].id = flog.first[k].id

-----------------------------------------------------------------------------
(* Termination of fetchSellerListings (SpecFetchFair) *)

\* C38: against a server that pages a finite set of listings consistently,
\* and with every network call completing, fetchSellerListings returns or
\* throws
C38_FetchTerminates == <>(fpc \in {"returned", "threw"})

\* the call returned after the unfiltered loop was handed a page of items it
\* had already, went on, and ended on an empty page
C38_Witness ==
  /\ fpc = "returned"
  /\ flog.unfEnded
  /\ offset >= 1
  /\ Len(dedup) >= 1
  /\ \A k \in 1..Len(dedup) : dedup[k].src = "loc"

=============================================================================
